---------------------------- MODULE Spec2Model ----------------------------
(***************************************************************************)
(* Staging-to-history consolidation of the training ETL pipeline.          *)
(*                                                                         *)
(* The database is modelled at the level PostgreSQL exposes to the         *)
(* scripts: committed table contents, the uncommitted writes of every open *)
(* transaction, the ACCESS EXCLUSIVE lock a TRUNCATE holds until the end   *)
(* of its transaction, and the row locks an upsert holds on the keys it    *)
(* wrote.  Every ETL function is a process (a worker) that walks through   *)
(* its statements; workers interleave between statements.  A statement is  *)
(* one step: it waits until the locks it needs are free and then runs on   *)
(* the rows committed at that moment (READ COMMITTED).                     *)
(*                                                                         *)
(* The DAG is modelled at the level Airflow exposes: the task instances   *)
(* of each run with their state and tries; a try of an extraction task     *)
(* commits its staging load when it succeeds.                              *)
(*                                                                         *)
(* The API clients are modelled by the loop of _call: one step per HTTP    *)
(* attempt, the server answering with any status or the network raising.   *)
(* The normalization of the raw records is the loop of the transform       *)
(* functions together with the print that follows it.                      *)
(*                                                                         *)
(* Not modelled: the columns of a record one by one (a record is a key and *)
(* a value standing for all business columns), loaded_at, NULL natural     *)
(* keys, and the progress output of the scripts where it cannot raise.     *)
(***************************************************************************)
EXTENDS Integers, Sequences, FiniteSets, TLC

(***************************************************************************)
(* Bounds of the model.                                                    *)
(***************************************************************************)
MaxBatch == 2        \* longest batch a call is given
MaxJoin == 3         \* most rows in a staging table the join reads
MaxTime == 1         \* last tick of the wall clock
MaxVersion == 3      \* upserts stop when a row reaches this version
MaxRows == 3         \* appends stop when the historical table has this many rows
MaxRaw == 2          \* most raw records an API call returns
MaxRetriesArg == 3   \* largest max_retries a client is constructed with

Workers == {"w1", "w2"}
KeyOrder == <<"k1", "k2", "k3", "k4">>          \* the keys, ascending
NullPop == <<"n">>                              \* business columns with population NULL
Vals == {<<"a">>, NullPop}                      \* the business columns of a record
Runs == {"r1", "r2"}                            \* execution ids
NoStation == "k0"                               \* composite key whose station_id is NULL

\* the staging tables
SAreas == {"basic", "geo", "culture", "air_quality", "weather", "regions", "countries"}
\* the versioned historical tables
VTables == {"th_countries", "th_regions"}
\* the append-only historical tables
ATables == {"th_weather", "th_air_quality"}

\* all sequences over S of length at most n
SeqUpTo(S, n) == UNION {[1..m -> S] : m \in 0..n}

BatchesOf(K, V, n) == SeqUpTo([key : K, val : V], n)

VARIABLES
    sa,       \* committed contents of each staging table: a sequence of rows
    th,       \* committed contents of each versioned historical table: a set of rows
    ah,       \* committed contents of each append-only historical table: a sequence of rows
    wk,       \* the state of each worker: function, position, locals, open transaction
    clock,    \* wall clock, the value NOW() returns to a transaction that starts
    full,     \* history: per staging table, the whole batch of the last committed load
    applied,  \* history: per append-only table, the batch last consolidated into it
    rd,       \* the concurrent reader of a staging table
    obs,      \* what the reader last observed
    scope,    \* the pipeline a behaviour exercises (pipelines use disjoint tables)
    dag,      \* the task instances of the DAG runs: state, tries, rows the merge read
    job,      \* the batch the orchestrator submits again when it re-invokes a consolidation
    http      \* the _call of an API client in progress: attempts, sleeps, result

vars == <<sa, th, ah, wk, clock, full, applied, rd, obs, scope, dag, job, http>>

(***************************************************************************)
(* Workers.                                                                *)
(***************************************************************************)
IdleWorker ==
    [fn |-> "idle", pc |-> "idle", area |-> "none", run |-> "none",
     recs |-> <<>>, i |-> 0,
     hold |-> FALSE, pend |-> <<>>,
     tx |-> FALSE, t0 |-> 0, tw |-> {}, ta |-> <<>>, batch |-> <<>>, th0 |-> {},
     sa0 |-> <<>>, ah0 |-> <<>>, raw |-> <<>>,
     cb |-> 0, cnt |-> 0, ins |-> 0, upd |-> 0, dup |-> 0, tot |-> 0,
     n |-> 0, dk |-> 0, kb |-> 0, ka |-> 0, again |-> FALSE,
     out |-> <<>>, errors |-> 0, res |-> "none"]

Free(w) == wk[w].pc \in {"idle", "done"}

\* a call has returned or raised: its connection and locals are gone, what
\* the caller gets (and the counts the properties read) stays
Returned(r, res) ==
    [IdleWorker EXCEPT !.fn = r.fn, !.pc = "done", !.res = res, !.i = r.i,
                       !.n = r.n, !.dk = r.dk, !.cnt = r.cnt,
                       !.ins = r.ins, !.upd = r.upd, !.dup = r.dup, !.tot = r.tot,
                       !.kb = r.kb, !.ka = r.ka, !.again = r.again,
                       !.out = r.out]

\* the ACCESS EXCLUSIVE lock of a TRUNCATE is held until its transaction ends
HeldByOther(w, a) == \E o \in Workers \ {w} : wk[o].hold /\ wk[o].area = a
Held(a) == \E o \in Workers : wk[o].hold /\ wk[o].area = a

\* the staging table each function loads
AreaOf(fn) ==
    CASE fn = "load_basic" -> "basic"
      [] fn = "load_geo" -> "geo"
      [] fn = "load_culture" -> "culture"
      [] fn \in {"load_air_quality", "etl_air_quality", "load_to_th"} -> "air_quality"
      [] fn = "etl_weather" -> "weather"
      [] fn = "etl_regions" -> "regions"
      [] fn = "etl_all_countries" -> "countries"
      [] OTHER -> "none"

\* the historical table each function consolidates into
VTableOf(fn) ==
    CASE fn \in {"merge_to_th", "etl_all_countries"} -> "th_countries"
      [] fn = "etl_regions" -> "th_regions"
      [] OTHER -> "none"

ATableOf(fn) ==
    CASE fn = "etl_weather" -> "th_weather"
      [] fn \in {"etl_air_quality", "load_to_th"} -> "th_air_quality"
      [] OTHER -> "none"

\* the pipeline a function belongs to
Pipe(fn) ==
    CASE fn = "merge_to_th" -> "merge"
      [] fn = "read_combined_sa" -> "join"
      [] OTHER -> AreaOf(fn)


\* load_to_sa of the four scripts that have one (the air-quality ETL calls
\* its load_to_sa and then its load_to_th)
LoadToSaFns == {"load_basic", "load_geo", "load_culture", "load_air_quality", "etl_air_quality"}
\* the ETLs that stage and consolidate on one connection
StageAndMergeFns == {"etl_weather", "etl_regions", "etl_all_countries"}

(***************************************************************************)
(* Staging: TRUNCATE + INSERT inside one transaction.                      *)
(***************************************************************************)
\* psycopg2.connect() returns a connection that is not in autocommit mode:
\* statements run in a transaction that lasts until commit() or rollback()
Autocommit_On == TRUE
Autocommit == FALSE

\* a record as stored in a staging table: its columns plus execution_id
Tagged(r, run) == [key |-> r.key, val |-> r.val, run |-> run]

\* the batch as it is in the staging table once the whole load is in
TagAll(recs, run) == [j \in 1..Len(recs) |-> Tagged(recs[j], run)]

\* the columns of a staged row without its execution_id
Untag(rows) == [j \in 1..Len(rows) |-> [key |-> rows[j].key, val |-> rows[j].val]]

\* TRUNCATE TABLE: the table as the truncating transaction sees it
TruncateTable_KeepsRows(rows) == rows
TruncateTable(rows) == <<>>

\* one INSERT of the load: the row is added to the transaction's view

\* the committed table after a statement of a connection
AfterStatement(committed, view) == IF Autocommit THEN view ELSE committed

\* conn.commit(): the transaction's view becomes the committed table
CommitTable(committed, pending) == pending

\* conn.rollback(), or the connection closing with the transaction open
RollbackTable_Commits(committed, pending) == pending
RollbackTable(committed, pending) == committed

\* a call enters its staging phase with the normalized batch recs
BeginStaging(w, fn, run, recs) ==
    /\ Free(w)
    /\ Pipe(fn) = scope
    /\ wk' = [wk EXCEPT ![w] = [IdleWorker EXCEPT
                 !.fn = fn, !.pc = "truncate", !.area = AreaOf(fn),
                 !.run = run, !.recs = recs, !.n = Len(recs),
                 !.th0 = IF VTableOf(fn) = "none" THEN {} ELSE th[VTableOf(fn)],
                 !.sa0 = IF fn \in StageAndMergeFns \cup {"etl_air_quality"}
                         THEN sa[AreaOf(fn)] ELSE <<>>,
                 !.ah0 = IF ATableOf(fn) = "none" THEN <<>> ELSE ah[ATableOf(fn)]]]
    /\ UNCHANGED <<sa, th, ah, clock, full, applied, rd, obs, scope, dag, job, http>>

\* ---- normalization of the raw records, before the staging phase ----
\* the loop of transform_countries_* and of etl_get_all_countries: a record
\* whose normalization raises is skipped (try/except/continue), the others
\* are appended in the order they came
Normalized(raw) ==
    LET good == SelectSeq(raw, LAMBDA x : ~x.bad)
    IN  [j \in 1..Len(good) |-> [key |-> good[j].key, val |-> good[j].val]]

\* what follows the loop: transform_countries_basic prints transformed[0]
\* with its population formatted as a number (IndexError on an empty list,
\* TypeError when the population is None); the other transforms look for
\* their example first and print it only if there is one
ExamplePrintRaises(fn, out) ==
    /\ fn = "load_basic"
    /\ IF out = <<>> THEN TRUE ELSE out[1].val = NullPop

\* an ETL entry point has extracted the raw records and enters its transform
BeginTransform(w, fn, run, rawrecs) ==
    /\ Free(w)
    /\ Pipe(fn) = scope
    /\ fn = "etl_air_quality" => rawrecs # <<>>
    /\ wk' = [wk EXCEPT ![w] = [IdleWorker EXCEPT
                 !.fn = fn, !.pc = "transform", !.area = AreaOf(fn),
                 !.run = run, !.raw = rawrecs]]
    /\ UNCHANGED <<sa, th, ah, clock, full, applied, rd, obs, scope, dag, job, http>>

\* the transform returns the normalized records; the staging phase follows
Transform_Done(w) ==
    LET out == Normalized(wk[w].raw)
        fn == wk[w].fn
    IN  /\ wk[w].pc = "transform"
        /\ ~ExamplePrintRaises(fn, out)
        /\ wk' = [wk EXCEPT ![w] = [IdleWorker EXCEPT
                     !.fn = fn, !.pc = "truncate", !.area = AreaOf(fn),
                     !.run = wk[w].run, !.recs = out, !.n = Len(out),
                     !.th0 = IF VTableOf(fn) = "none" THEN {} ELSE th[VTableOf(fn)],
                     !.sa0 = IF fn \in StageAndMergeFns \cup {"etl_air_quality"}
                             THEN sa[AreaOf(fn)] ELSE <<>>,
                     !.ah0 = IF ATableOf(fn) = "none" THEN <<>> ELSE ah[ATableOf(fn)]]]
        /\ UNCHANGED <<sa, th, ah, clock, full, applied, rd, obs, scope, dag, job, http>>

\* the print after the loop raises: the exception leaves the transform and
\* the except clause of the entry point re-raises it
Transform_Raises(w) ==
    /\ wk[w].pc = "transform"
    /\ ExamplePrintRaises(wk[w].fn, Normalized(wk[w].raw))
    /\ wk' = [wk EXCEPT ![w] = Returned(wk[w], "raised")]
    /\ UNCHANGED <<sa, th, ah, clock, full, applied, rd, obs, scope, dag, job, http>>

\* etl_get_weather_data: no measurement could be extracted; the stats are
\* returned (success still False) before any connection is opened
Weather_NoData(w) ==
    /\ wk[w].pc = "truncate"
    /\ wk[w].fn = "etl_weather"
    /\ wk[w].recs = <<>>
    /\ wk' = [wk EXCEPT ![w] = Returned(wk[w], "failed")]
    /\ UNCHANGED <<sa, th, ah, clock, full, applied, rd, obs, scope, dag, job, http>>

\* etl_get_all_countries: client.get_all_countries() does not return ok;
\* the error is recorded and the stats are returned (success still False)
\* before any connection is opened
AllCountries_ApiFails(w) ==
    /\ Free(w)
    /\ scope = Pipe("etl_all_countries")
    /\ wk' = [wk EXCEPT ![w] = Returned([IdleWorker EXCEPT !.fn = "etl_all_countries"], "failed")]
    /\ UNCHANGED <<sa, th, ah, clock, full, applied, rd, obs, scope, dag, job, http>>

\* etl_get_air_quality: extract_air_quality() returns no measurement (no
\* city call gave data); a record with status NO_DATA is returned before
\* load_to_sa is called
AirQuality_NoData(w) ==
    /\ Free(w)
    /\ scope = Pipe("etl_air_quality")
    /\ wk' = [wk EXCEPT ![w] = Returned([IdleWorker EXCEPT !.fn = "etl_air_quality"], "no_data")]
    /\ UNCHANGED <<sa, th, ah, clock, full, applied, rd, obs, scope, dag, job, http>>

\* cur.execute("TRUNCATE TABLE ..."): waits for the table lock, then holds
\* it until the transaction ends
SA_Truncate(w) ==
    /\ wk[w].pc = "truncate"
    /\ ~(wk[w].fn = "etl_weather" /\ wk[w].recs = <<>>)
    /\ ~HeldByOther(w, wk[w].area)
    /\ sa' = [sa EXCEPT ![wk[w].area] =
                 AfterStatement(sa[wk[w].area], TruncateTable(sa[wk[w].area]))]
    /\ wk' = [wk EXCEPT ![w].hold = ~Autocommit,
                        ![w].pend = TruncateTable(sa[wk[w].area]),
                        ![w].i = 0,
                        ![w].pc = "insert"]
    /\ UNCHANGED <<th, ah, clock, full, applied, rd, obs, scope, dag, job, http>>

\* the INSERT of the next record (execute_batch and the per-record loops)
SA_Insert(w) ==
    LET view == Append(wk[w].pend, Tagged(wk[w].recs[wk[w].i + 1], wk[w].run))
    IN  /\ wk[w].pc = "insert"
        /\ wk[w].fn # "etl_all_countries"
        /\ wk[w].i < Len(wk[w].recs)
        /\ sa' = [sa EXCEPT ![wk[w].area] = AfterStatement(sa[wk[w].area], view)]
        /\ wk' = [wk EXCEPT ![w].pend = view, ![w].i = wk[w].i + 1]
        /\ UNCHANGED <<th, ah, clock, full, applied, rd, obs, scope, dag, job, http>>

\* insert_countries_sa: execute_values sends the whole batch as one INSERT
SA_InsertValues(w) ==
    LET view == wk[w].pend \o TagAll(wk[w].recs, wk[w].run)
    IN  /\ wk[w].pc = "insert"
        /\ wk[w].fn = "etl_all_countries"
        /\ wk[w].i < Len(wk[w].recs)
        /\ sa' = [sa EXCEPT ![wk[w].area] = AfterStatement(sa[wk[w].area], view)]
        /\ wk' = [wk EXCEPT ![w].pend = view, ![w].i = Len(wk[w].recs)]
        /\ UNCHANGED <<th, ah, clock, full, applied, rd, obs, scope, dag, job, http>>

\* an INSERT of the load fails; the except clause of load_to_sa,
\* etl_get_regions_stats and etl_get_all_countries rolls back (load_to_sa
\* re-raises, the other two return their stats with the error recorded)
SA_InsertFails(w) ==
    /\ wk[w].pc = "insert"
    /\ wk[w].fn # "etl_weather"
    /\ wk[w].i < Len(wk[w].recs)
    /\ sa' = [sa EXCEPT ![wk[w].area] = RollbackTable(sa[wk[w].area], wk[w].pend)]
    /\ wk' = [wk EXCEPT ![w] =
                 Returned(wk[w], IF wk[w].fn \in LoadToSaFns THEN "raised" ELSE "failed")]
    /\ UNCHANGED <<th, ah, clock, full, applied, rd, obs, scope, dag, job, http>>

\* etl_get_weather_data: the except clause only records the error; neither
\* rollback nor close is called, the function returns its stats while the
\* transaction (and its TRUNCATE lock) is still open
Weather_InsertFails(w) ==
    /\ wk[w].pc = "insert"
    /\ wk[w].fn = "etl_weather"
    /\ wk[w].i < Len(wk[w].recs)
    /\ wk' = [wk EXCEPT ![w].res = "failed", ![w].pc = "leaked"]
    /\ UNCHANGED <<sa, th, ah, clock, full, applied, rd, obs, scope, dag, job, http>>

\* conn.commit() after the last INSERT
SA_Commit(w) ==
    /\ wk[w].pc = "insert"
    /\ wk[w].i = Len(wk[w].recs)
    /\ sa' = [sa EXCEPT ![wk[w].area] = CommitTable(sa[wk[w].area], wk[w].pend)]
    /\ full' = [full EXCEPT ![wk[w].area] = TagAll(wk[w].recs, wk[w].run)]
    /\ wk' = [wk EXCEPT ![w].hold = FALSE,
                        ![w].pend = <<>>,
                        ![w].pc = IF wk[w].fn \in LoadToSaFns THEN "count" ELSE "merge"]
    /\ UNCHANGED <<th, ah, clock, applied, rd, obs, scope, dag, job, http>>

\* load_to_sa: SELECT COUNT(*) of the staging table, returned to the caller
SA_Count(w) ==
    /\ wk[w].pc = "count"
    /\ ~HeldByOther(w, wk[w].area)
    /\ wk' = [wk EXCEPT ![w] =
                 IF wk[w].fn = "etl_air_quality"
                 THEN [wk[w] EXCEPT !.cnt = Len(sa[wk[w].area]), !.pc = "before"]
                 ELSE Returned([wk[w] EXCEPT !.cnt = Len(sa[wk[w].area])], "ok")]
    /\ UNCHANGED <<sa, th, ah, clock, full, applied, rd, obs, scope, dag, job, http>>

\* etl_get_weather_data after an error: the connection object is released,
\* the server aborts its open transaction and the TRUNCATE lock goes
ConnReleased(w) ==
    /\ wk[w].pc = "leaked"
    /\ sa' = [sa EXCEPT ![wk[w].area] =
                 IF wk[w].hold THEN RollbackTable(sa[wk[w].area], wk[w].pend)
                 ELSE sa[wk[w].area]]
    /\ wk' = [wk EXCEPT ![w] = Returned(wk[w], "failed")]
    /\ UNCHANGED <<th, ah, clock, full, applied, rd, obs, scope, dag, job, http>>

(***************************************************************************)
(* Versioned historical tables: INSERT ... ON CONFLICT (key) DO UPDATE.    *)
(***************************************************************************)
KeysOf(T) == {r.key : r \in T}
HasKey(T, k) == \E r \in T : r.key = k
RowOf(T, k) == CHOOSE r \in T : r.key = k
SeqKeys(rows) == {rows[j].key : j \in 1..Len(rows)}

\* the rows a transaction sees: the committed table under its own writes
Overlay_KeepsOld(T, tw) == T \cup tw
Overlay(T, tw) == {r \in T : ~HasKey(tw, r.key)} \cup tw

\* conn.commit() / conn.rollback() of the rows a transaction wrote
CommitRows_OnlyWritten(T, tw) == tw
CommitRows(T, tw) == Overlay(T, tw)
RollbackRows(T, tw) == T

\* DO UPDATE SET col = EXCLUDED.col, last_updated_at = NOW(), version = version + 1
ConflictUpdate_ResetsFirst(old, r, now) ==
    [old EXCEPT !.val = r.val, !.first = now, !.last = now, !.version = old.version + 1]
ConflictUpdate(old, r, now) ==
    [old EXCEPT !.val = r.val, !.last = now, !.version = old.version + 1]

\* INSERT ... ON CONFLICT (key) DO UPDATE of one proposed row
UpsertRow(T, r, now) ==
    IF HasKey(T, r.key)
    THEN (T \ {RowOf(T, r.key)}) \cup {ConflictUpdate(RowOf(T, r.key), r, now)}
    ELSE T \cup {[key |-> r.key, val |-> r.val, version |-> 1, first |-> now, last |-> now]}

\* INSERT ... SELECT ... ON CONFLICT DO UPDATE as one command over rows: a
\* proposed row that conflicts with a row this command already inserted or
\* updated makes the command fail ("cannot affect row a second time")
RECURSIVE UpsertSelect(_, _, _, _)
UpsertSelect(T, rows, now, touched) ==
    IF rows = <<>> THEN [ok |-> TRUE, T |-> T]
    ELSE IF Head(rows).key \in touched THEN [ok |-> FALSE, T |-> T]
    ELSE UpsertSelect(UpsertRow(T, Head(rows), now), Tail(rows), now,
                      touched \cup {Head(rows).key})

\* RETURNING CASE WHEN version = 1 THEN 'INSERT' ELSE 'UPDATE' END, counted
ReturnedInserts_All(T, ks) == Cardinality(ks)
ReturnedInserts(T, ks) == Cardinality({k \in ks : RowOf(T, k).version = 1})

\* merge_to_th: inserted = max(0, count_after - count_before)
CountDiffInserted_After(before, after) == after
CountDiffInserted(before, after) == IF after - before > 0 THEN after - before ELSE 0

\* a key another open transaction has written is locked until that
\* transaction ends: an upsert of the same key waits
RowLockedByOther_NoWait(w, t, k) == FALSE
RowLockedByOther(w, t, k) ==
    \E o \in Workers \ {w} : wk[o].tx /\ VTableOf(wk[o].fn) = t /\ HasKey(wk[o].tw, k)

\* the upserts of the model stop at MaxVersion
BelowCap(T, ks) == \A k \in ks : HasKey(T, k) => RowOf(T, k).version < MaxVersion

\* the number of different keys in a batch
DistinctKeys(rows) == Cardinality(SeqKeys(rows))

\* merge_to_th(countries)
BeginMergeToTh(w, recs) ==
    /\ Free(w)
    /\ scope = "merge"
    /\ wk' = [wk EXCEPT ![w] = [IdleWorker EXCEPT
                 !.fn = "merge_to_th", !.pc = "before", !.recs = recs,
                 !.batch = recs, !.n = Len(recs), !.dk = DistinctKeys(recs),
                 !.th0 = th["th_countries"]]]
    /\ UNCHANGED <<sa, th, ah, clock, full, applied, rd, obs, scope, dag, job, http>>

\* SELECT COUNT(*) before: the first statement opens the transaction
MergeToTh_CountBefore(w) ==
    /\ wk[w].pc = "before"
    /\ wk[w].fn = "merge_to_th"
    /\ wk' = [wk EXCEPT ![w].tx = TRUE, ![w].t0 = clock,
                        ![w].cb = Cardinality(th["th_countries"]),
                        ![w].i = 0, ![w].pc = "upsert"]
    /\ UNCHANGED <<sa, th, ah, clock, full, applied, rd, obs, scope, dag, job, http>>

\* execute_batch: one INSERT ... ON CONFLICT statement per record, in order
MergeToTh_Upsert(w) ==
    LET r == wk[w].recs[wk[w].i + 1]
        view == Overlay(th["th_countries"], wk[w].tw)
        after == UpsertRow(view, r, wk[w].t0)
    IN  /\ wk[w].pc = "upsert"
        /\ wk[w].i < Len(wk[w].recs)
        /\ ~RowLockedByOther(w, "th_countries", r.key)
        /\ BelowCap(view, {r.key})
        /\ wk' = [wk EXCEPT ![w].tw = {x \in wk[w].tw : x.key # r.key}
                                      \cup {RowOf(after, r.key)},
                            ![w].i = wk[w].i + 1]
        /\ UNCHANGED <<sa, th, ah, clock, full, applied, rd, obs, scope, dag, job, http>>

\* a record of the batch fails: except -> conn.rollback(), raise
MergeToTh_UpsertFails(w) ==
    /\ wk[w].pc = "upsert"
    /\ wk[w].i < Len(wk[w].recs)
    /\ th' = [th EXCEPT !["th_countries"] = RollbackRows(th["th_countries"], wk[w].tw)]
    /\ wk' = [wk EXCEPT ![w] = Returned(wk[w], "raised")]
    /\ UNCHANGED <<sa, ah, clock, full, applied, rd, obs, scope, dag, job, http>>

\* conn.commit() after the batch
MergeToTh_Commit(w) ==
    /\ wk[w].pc = "upsert"
    /\ wk[w].i = Len(wk[w].recs)
    /\ th' = [th EXCEPT !["th_countries"] = CommitRows(th["th_countries"], wk[w].tw)]
    /\ wk' = [wk EXCEPT ![w].tx = FALSE, ![w].tw = {},
                        ![w].kb = Cardinality(KeysOf(th["th_countries"])),
                        ![w].ka = Cardinality(KeysOf(CommitRows(th["th_countries"], wk[w].tw))),
                        ![w].pc = "after"]
    /\ UNCHANGED <<sa, ah, clock, full, applied, rd, obs, scope, dag, job, http>>

\* the verification print formats the population of every sample country
\* in the table with {pop:,}: a NULL population raises TypeError
VerifyRaises(T) == \E r \in T : r.key \in {"k1"} /\ r.val = NullPop

\* SELECT COUNT(*) after, the statistics derived from the two counts, the
\* verification print, and the return of the statistics
MergeToTh_CountAfter(w) ==
    LET after == Cardinality(th["th_countries"])
        inserted == CountDiffInserted(wk[w].cb, after)
    IN  /\ wk[w].pc = "after"
        /\ wk[w].fn = "merge_to_th"
        /\ ~VerifyRaises(th["th_countries"])
        /\ wk' = [wk EXCEPT ![w] =
                     Returned([wk[w] EXCEPT !.ins = inserted,
                                            !.upd = Len(wk[w].recs) - inserted,
                                            !.tot = after], "ok")]
        /\ UNCHANGED <<sa, th, ah, clock, full, applied, rd, obs, scope, dag, job, http>>

\* the verification print raises after the commit: except -> conn.rollback()
\* (nothing is left to roll back), raise
MergeToTh_VerifyFails(w) ==
    /\ wk[w].pc = "after"
    /\ wk[w].fn = "merge_to_th"
    /\ VerifyRaises(th["th_countries"])
    /\ th' = [th EXCEPT !["th_countries"] = RollbackRows(th["th_countries"], wk[w].tw)]
    /\ wk' = [wk EXCEPT ![w] = Returned(wk[w], "raised")]
    /\ UNCHANGED <<sa, ah, clock, full, applied, rd, obs, scope, dag, job, http>>

\* etl_get_all_countries / etl_get_regions_stats, MERGE phase: one
\* INSERT ... SELECT FROM the staging table ... ON CONFLICT DO UPDATE RETURNING
Etl_Merge(w) ==
    LET t == VTableOf(wk[w].fn)
        B == Untag(sa[wk[w].area])
        u == UpsertSelect(th[t], B, clock, {})
    IN  /\ wk[w].pc = "merge"
        /\ wk[w].fn \in {"etl_all_countries", "etl_regions"}
        /\ ~HeldByOther(w, wk[w].area)
        /\ \A k \in SeqKeys(B) : ~RowLockedByOther(w, t, k)
        /\ BelowCap(th[t], SeqKeys(B))
        /\ u.ok
        /\ wk' = [wk EXCEPT ![w].tx = TRUE, ![w].t0 = clock,
                            ![w].tw = {RowOf(u.T, k) : k \in SeqKeys(B)},
                            ![w].n = Len(B),
                            ![w].dk = DistinctKeys(B),
                            ![w].batch = B,
                            ![w].ins = ReturnedInserts(u.T, SeqKeys(B)),
                            ![w].upd = Cardinality({k \in SeqKeys(B) : RowOf(u.T, k).version # 1}),
                            ![w].pc = "total"]
        /\ UNCHANGED <<sa, th, ah, clock, full, applied, rd, obs, scope, dag, job, http>>

\* the MERGE statement fails (always when two staged rows share the key):
\* except -> conn.rollback(); finally -> conn.close(); stats with the error
Etl_MergeFails(w) ==
    LET B == Untag(sa[wk[w].area])
    IN  /\ wk[w].pc = "merge"
        /\ wk[w].fn \in {"etl_all_countries", "etl_regions"}
        /\ ~HeldByOther(w, wk[w].area)
        /\ th' = [th EXCEPT ![VTableOf(wk[w].fn)] =
                     RollbackRows(th[VTableOf(wk[w].fn)], wk[w].tw)]
        /\ wk' = [wk EXCEPT ![w] =
                     Returned([wk[w] EXCEPT !.n = Len(B), !.dk = DistinctKeys(B)], "failed")]
        /\ UNCHANGED <<sa, ah, clock, full, applied, rd, obs, scope, dag, job, http>>

\* SELECT COUNT(*) of the historical table, inside the MERGE transaction
Etl_Total(w) ==
    /\ wk[w].pc = "total"
    /\ wk[w].fn \in {"etl_all_countries", "etl_regions"}
    /\ wk' = [wk EXCEPT ![w].tot = Cardinality(Overlay(th[VTableOf(wk[w].fn)], wk[w].tw)),
                        ![w].pc = "commit"]
    /\ UNCHANGED <<sa, th, ah, clock, full, applied, rd, obs, scope, dag, job, http>>

\* conn.commit(); stats['success'] = True
Etl_Commit(w) ==
    LET t == VTableOf(wk[w].fn)
    IN  /\ wk[w].pc = "commit"
        /\ wk[w].fn \in {"etl_all_countries", "etl_regions"}
        /\ th' = [th EXCEPT ![t] = CommitRows(th[t], wk[w].tw)]
        /\ wk' = [wk EXCEPT ![w] =
                     Returned([wk[w] EXCEPT
                                 !.kb = Cardinality(KeysOf(th[t])),
                                 !.ka = Cardinality(KeysOf(CommitRows(th[t], wk[w].tw)))],
                              "ok")]
        /\ UNCHANGED <<sa, ah, clock, full, applied, rd, obs, scope, dag, job, http>>

(***************************************************************************)
(* Append-only: INSERT ... SELECT FROM staging ON CONFLICT (...) DO NOTHING *)
(***************************************************************************)
\* the arbiter of ON CONFLICT is the UNIQUE constraint on the composite key:
\* two keys conflict when they are equal and no component of them is NULL
\* (a UNIQUE constraint takes NULLs to be distinct)
ConflictsWith(rows, k) == k # NoStation /\ \E j \in 1..Len(rows) : rows[j].key = k

\* the rows the command inserts, in order: a proposed row is skipped when its
\* composite key conflicts with a row of the table or with a row this
\* command inserted earlier
RECURSIVE InsertDoNothing(_, _, _)
InsertDoNothing(T, rows, acc) ==
    IF rows = <<>> THEN acc
    ELSE IF ConflictsWith(T, Head(rows).key) \/ ConflictsWith(acc, Head(rows).key)
         THEN InsertDoNothing(T, Tail(rows), acc)
         ELSE InsertDoNothing(T, Tail(rows), Append(acc, Head(rows)))

\* conn.commit() / conn.rollback() of appended rows
CommitAppend_Overwrites(T, ta) == ta
CommitAppend(T, ta) == T \o ta


\* load_to_th: duplicates = len([]) if rows_inserted == 0
\*                          else (count_after - count_before - rows_inserted),
\* returned as max(0, duplicates)
LoadToThDuplicates(before, after, inserted) ==
    LET d == IF inserted = 0 THEN 0 ELSE after - before - inserted
    IN  IF d > 0 THEN d ELSE 0

\* the staged batch is the batch the last consolidation into t applied
SameAsLast(t, B) == applied[t].some /\ applied[t].batch = Untag(B)

\* a composite key another open transaction has inserted: the insert waits
AppendLockedByOther(w, t, k) ==
    \E o \in Workers \ {w} : wk[o].tx /\ ATableOf(wk[o].fn) = t /\ ConflictsWith(wk[o].ta, k)

\* the appends of the model stop at MaxRows
RoomFor(T, new) == Len(T) + Len(new) <= MaxRows

\* load_to_th(execution_id) called on its own: consolidates what is staged
BeginLoadToTh(w, run) ==
    /\ Free(w)
    /\ scope = "air_quality"
    /\ wk' = [wk EXCEPT ![w] = [IdleWorker EXCEPT
                 !.fn = "load_to_th", !.pc = "before", !.area = "air_quality",
                 !.run = run]]
    /\ UNCHANGED <<sa, th, ah, clock, full, applied, rd, obs, scope, dag, job, http>>

\* load_to_th: SELECT COUNT(*) before opens the transaction
LoadToTh_CountBefore(w) ==
    /\ wk[w].pc = "before"
    /\ wk[w].fn \in {"etl_air_quality", "load_to_th"}
    /\ wk' = [wk EXCEPT ![w].tx = TRUE, ![w].t0 = clock,
                        ![w].cb = Len(ah["th_air_quality"]),
                        ![w].pc = "append"]
    /\ UNCHANGED <<sa, th, ah, clock, full, applied, rd, obs, scope, dag, job, http>>

\* load_to_th: the INSERT ... SELECT ... DO NOTHING; rows_inserted = cur.rowcount
LoadToTh_Insert(w) ==
    LET B == sa["air_quality"]
        new == InsertDoNothing(ah["th_air_quality"], B, <<>>)
    IN  /\ wk[w].pc = "append"
        /\ ~HeldByOther(w, "air_quality")
        /\ \A k \in SeqKeys(B) : ~AppendLockedByOther(w, "th_air_quality", k)
        /\ RoomFor(ah["th_air_quality"], new)
        /\ wk' = [wk EXCEPT ![w].ta = new, ![w].ins = Len(new), ![w].n = Len(B),
                            ![w].dk = DistinctKeys(B),
                            ![w].batch = Untag(B),
                            ![w].again = SameAsLast("th_air_quality", B),
                            ![w].pc = "commit"]
        /\ UNCHANGED <<sa, th, ah, clock, full, applied, rd, obs, scope, dag, job, http>>

\* load_to_th: the INSERT fails: except -> conn.rollback(), raise
LoadToTh_InsertFails(w) ==
    /\ wk[w].pc = "append"
    /\ ~HeldByOther(w, "air_quality")
    /\ ah' = [ah EXCEPT !["th_air_quality"] = ah["th_air_quality"]]
    /\ wk' = [wk EXCEPT ![w] = Returned(wk[w], "raised")]
    /\ UNCHANGED <<sa, th, clock, full, applied, rd, obs, scope, dag, job, http>>

\* load_to_th: conn.commit()
LoadToTh_Commit_ClearsStaging(w) ==
    /\ wk[w].pc = "commit"
    /\ wk[w].fn \in {"etl_air_quality", "load_to_th"}
    /\ ah' = [ah EXCEPT !["th_air_quality"] = CommitAppend(ah["th_air_quality"], wk[w].ta)]
    /\ applied' = [applied EXCEPT !["th_air_quality"] = [some |-> TRUE, batch |-> wk[w].batch]]
    /\ sa' = [sa EXCEPT !["air_quality"] = <<>>]
    /\ wk' = [wk EXCEPT ![w].tx = FALSE, ![w].ta = <<>>, ![w].pc = "after"]
    /\ UNCHANGED <<th, clock, full, rd, obs, scope, dag, job, http>>
LoadToTh_Commit(w) ==
    /\ wk[w].pc = "commit"
    /\ wk[w].fn \in {"etl_air_quality", "load_to_th"}
    /\ ah' = [ah EXCEPT !["th_air_quality"] = CommitAppend(ah["th_air_quality"], wk[w].ta)]
    /\ applied' = [applied EXCEPT !["th_air_quality"] = [some |-> TRUE, batch |-> wk[w].batch]]
    /\ wk' = [wk EXCEPT ![w].tx = FALSE, ![w].ta = <<>>, ![w].pc = "after"]
    /\ UNCHANGED <<sa, th, clock, full, rd, obs, scope, dag, job, http>>

\* load_to_th: SELECT COUNT(*) after, and the returned statistics
LoadToTh_CountAfter(w) ==
    LET after == Len(ah["th_air_quality"])
    IN  /\ wk[w].pc = "after"
        /\ wk[w].fn \in {"etl_air_quality", "load_to_th"}
        /\ wk' = [wk EXCEPT ![w] =
                     Returned([wk[w] EXCEPT
                                  !.dup = LoadToThDuplicates(wk[w].cb, after, wk[w].ins),
                                  !.tot = after], "ok")]
        /\ UNCHANGED <<sa, th, ah, clock, full, applied, rd, obs, scope, dag, job, http>>

\* etl_get_weather_data, LOAD TH phase: the INSERT ... SELECT ... DO NOTHING
Weather_Merge(w) ==
    LET B == sa["weather"]
        new == InsertDoNothing(ah["th_weather"], B, <<>>)
    IN  /\ wk[w].pc = "merge"
        /\ wk[w].fn = "etl_weather"
        /\ ~HeldByOther(w, "weather")
        /\ \A k \in SeqKeys(B) : ~AppendLockedByOther(w, "th_weather", k)
        /\ RoomFor(ah["th_weather"], new)
        /\ wk' = [wk EXCEPT ![w].tx = TRUE, ![w].t0 = clock,
                            ![w].cb = Len(ah["th_weather"]),
                            ![w].ta = new, ![w].ins = Len(new),
                            ![w].dk = DistinctKeys(B),
                            ![w].batch = Untag(B),
                            ![w].again = SameAsLast("th_weather", B),
                            ![w].pc = "commit"]
        /\ UNCHANGED <<sa, th, ah, clock, full, applied, rd, obs, scope, dag, job, http>>

\* the statement fails: the error is recorded, the connection stays open
Weather_MergeFails(w) ==
    /\ wk[w].pc = "merge"
    /\ wk[w].fn = "etl_weather"
    /\ ~HeldByOther(w, "weather")
    /\ wk' = [wk EXCEPT ![w].tx = TRUE, ![w].res = "failed", ![w].pc = "leaked"]
    /\ UNCHANGED <<sa, th, ah, clock, full, applied, rd, obs, scope, dag, job, http>>

\* etl_get_weather_data: conn.commit() of the LOAD TH phase
Weather_Commit(w) ==
    /\ wk[w].pc = "commit"
    /\ wk[w].fn = "etl_weather"
    /\ ah' = [ah EXCEPT !["th_weather"] = CommitAppend(ah["th_weather"], wk[w].ta)]
    /\ applied' = [applied EXCEPT !["th_weather"] = [some |-> TRUE, batch |-> wk[w].batch]]
    /\ wk' = [wk EXCEPT ![w].tx = FALSE, ![w].ta = <<>>, ![w].pc = "after"]
    /\ UNCHANGED <<sa, th, clock, full, rd, obs, scope, dag, job, http>>

\* etl_get_weather_data: the duplicates, the total, close, success
Weather_Total(w) ==
    /\ wk[w].pc = "after"
    /\ wk[w].fn = "etl_weather"
    /\ wk' = [wk EXCEPT ![w] =
                 Returned([wk[w] EXCEPT !.dup = Len(wk[w].recs) - wk[w].ins,
                                        !.tot = Len(ah["th_weather"])], "ok")]
    /\ UNCHANGED <<sa, th, ah, clock, full, applied, rd, obs, scope, dag, job, http>>

(***************************************************************************)
(* read_combined_sa: basic INNER JOIN geo INNER JOIN culture ON code_iso3, *)
(* ORDER BY b.code_iso3.                                                   *)
(***************************************************************************)
\* the rows of a staging table with key k, in table order
WithKey(rows, k) == SelectSeq(rows, LAMBDA r : r.key = k)

\* the joined rows of one key: every combination of a basic, a geo and a
\* culture row of that key, with the columns of the three
JoinKey(b, g, c) ==
    [m \in 1..(Len(b) * Len(g) * Len(c)) |->
        [key |-> b[1].key,
         val |-> b[((m - 1) \div (Len(g) * Len(c))) + 1].val
                 \o g[(((m - 1) \div Len(c)) % Len(g)) + 1].val
                 \o c[((m - 1) % Len(c)) + 1].val]]

\* ORDER BY b.code_iso3: the key whose rows come j-th in the result
OrderedKey_Descending(j) == KeyOrder[Len(KeyOrder) + 1 - j]
OrderedKey(j) == KeyOrder[j]

\* the join, key by key in ascending key order (rows of one key are returned
\* in scan order; SQL leaves their order open)
RECURSIVE JoinFrom(_, _, _, _)
JoinFrom(j, b, g, c) ==
    IF j > Len(KeyOrder) THEN <<>>
    ELSE LET k == OrderedKey(j)
         IN  (IF WithKey(b, k) = <<>> \/ WithKey(g, k) = <<>> \/ WithKey(c, k) = <<>>
              THEN <<>>
              ELSE JoinKey(WithKey(b, k), WithKey(g, k), WithKey(c, k)))
             \o JoinFrom(j + 1, b, g, c)

InnerJoin_IgnoresCulture(b, g, c) == JoinFrom(1, b, g, b)
InnerJoin(b, g, c) == JoinFrom(1, b, g, c)

\* read_combined_sa(): connect
BeginReadCombinedSa(w) ==
    /\ Free(w)
    /\ scope = "join"
    /\ wk' = [wk EXCEPT ![w] = [IdleWorker EXCEPT
                 !.fn = "read_combined_sa", !.pc = "join"]]
    /\ UNCHANGED <<sa, th, ah, clock, full, applied, rd, obs, scope, dag, job, http>>

\* the SELECT: waits while a load holds one of the three tables, then
\* returns the joined rows; finally -> close
ReadCombinedSa_Join(w) ==
    /\ wk[w].pc = "join"
    /\ \A a \in {"basic", "geo", "culture"} : ~HeldByOther(w, a)
    /\ wk' = [wk EXCEPT ![w] =
                 Returned([wk[w] EXCEPT
                              !.out = InnerJoin(sa["basic"], sa["geo"], sa["culture"])], "ok")]
    /\ UNCHANGED <<sa, th, ah, clock, full, applied, rd, obs, scope, dag, job, http>>

(***************************************************************************)
(* A reader of a staging table running beside the loads: a SELECT waits    *)
(* for the TRUNCATE lock and then reads the committed table.               *)
(***************************************************************************)
ReadIssue(a) ==
    /\ rd.pc = "idle"
    /\ rd' = [pc |-> "wait", area |-> a, during |-> Held(a)]
    /\ UNCHANGED <<sa, th, ah, wk, clock, full, applied, obs, scope, dag, job, http>>

ReadReturn ==
    /\ rd.pc = "wait"
    /\ ~Held(rd.area)
    /\ obs' = [n |-> 1, complete |-> (sa[rd.area] = full[rd.area]), during |-> rd.during]
    /\ rd' = [pc |-> "idle", area |-> "none", during |-> FALSE]
    /\ UNCHANGED <<sa, th, ah, wk, clock, full, applied, scope, dag, job, http>>

(***************************************************************************)
(* The DAG: a run per schedule interval; the three extractions of a run    *)
(* run in parallel, merge_countries_to_th is downstream of the three.      *)
(* No trigger_rule is set (all_success), no max_active_runs: the runs      *)
(* overlap, and all of them use the same staging tables.                   *)
(***************************************************************************)
Retries == 2     \* default_args['retries']

LoaderTasks == {"get_countries_basic", "get_countries_geo", "get_countries_culture"}
MergeTask == "merge_countries_to_th"
\* the tasks downstream of the merge
FanTasks == {"get_regions_stats", "get_weather", "get_air_quality"}
Tasks == LoaderTasks \cup {MergeTask} \cup FanTasks

\* the staging table the extraction task loads
TaskArea(t) ==
    CASE t = "get_countries_basic" -> "basic"
      [] t = "get_countries_geo" -> "geo"
      [] t = "get_countries_culture" -> "culture"
      [] OTHER -> "none"

\* what the API returns to an extraction, normalized
DagBatch == <<[key |-> "k1", val |-> <<"a">>]>>

\* no run has been created; try counts the tries of a task instance that
\* has not succeeded yet
DagIdle ==
    [st |-> [r \in Runs |-> [t \in Tasks |-> "none"]],
     try |-> [r \in Runs |-> [t \in Tasks |-> 0]],
     read |-> [r \in Runs |-> <<>>]]

\* [basic, geo, culture] >> merge with the default trigger rule all_success
UpstreamSucceeded_AllDone(r) ==
    \A t \in LoaderTasks : dag.st[r][t] \in {"success", "failed"}
UpstreamSucceeded(r) == \A t \in LoaderTasks : dag.st[r][t] = "success"

\* the state of a task instance whose n-th try raised
AfterFailure(n) == IF n <= Retries THEN "up_for_retry" ELSE "failed"

\* execute_batch of merge_to_th: the upserts of the rows, in order
RECURSIVE UpsertAll(_, _, _)
UpsertAll(T, rows, now) ==
    IF rows = <<>> THEN T
    ELSE UpsertAll(UpsertRow(T, Head(rows), now), Tail(rows), now)

\* the scheduler creates the next run; run_id is the execution id of its tasks
DagRunCreate(r) ==
    /\ scope = "dag"
    /\ \A t \in Tasks : dag.st[r][t] = "none"
    /\ r = "r1" \/ dag.st["r1"][MergeTask] # "none"
    /\ dag' = [dag EXCEPT !.st[r] = [t \in Tasks |-> "scheduled"]]
    /\ UNCHANGED <<sa, th, ah, wk, clock, full, applied, rd, obs, scope, job, http>>

\* a try of an extraction task starts (the first one, or a retry)
LoaderStart(r, t) ==
    /\ t \in LoaderTasks
    /\ dag.st[r][t] \in {"scheduled", "up_for_retry"}
    /\ dag' = [dag EXCEPT !.st[r][t] = "running", !.try[r][t] = dag.try[r][t] + 1]
    /\ UNCHANGED <<sa, th, ah, wk, clock, full, applied, rd, obs, scope, job, http>>

\* wrapper_get_countries_*: the ETL returns its stats after load_to_sa has
\* committed the batch under the run's execution id
LoaderSucceeds(r, t) ==
    /\ t \in LoaderTasks
    /\ dag.st[r][t] = "running"
    /\ sa' = [sa EXCEPT ![TaskArea(t)] = CommitTable(sa[TaskArea(t)], TagAll(DagBatch, r))]
    /\ full' = [full EXCEPT ![TaskArea(t)] = TagAll(DagBatch, r)]
    /\ dag' = [dag EXCEPT !.st[r][t] = "success", !.try[r][t] = 0]
    /\ UNCHANGED <<th, ah, wk, clock, applied, rd, obs, scope, job, http>>

\* the ETL raises (API error, or load_to_sa rolled back and re-raised): the
\* task instance is retried after retry_delay, or fails for good
LoaderFails(r, t) ==
    /\ t \in LoaderTasks
    /\ dag.st[r][t] = "running"
    /\ sa' = [sa EXCEPT ![TaskArea(t)] = RollbackTable(sa[TaskArea(t)], TagAll(DagBatch, r))]
    /\ dag' = [dag EXCEPT !.st[r][t] = AfterFailure(dag.try[r][t])]
    /\ UNCHANGED <<th, ah, wk, clock, full, applied, rd, obs, scope, job, http>>

\* a try of merge_countries_to_th starts once its upstream tasks allow it,
\* and etl_merge_countries_to_th calls read_combined_sa()
MergeStart(r) ==
    /\ dag.st[r][MergeTask] \in {"scheduled", "up_for_retry"}
    /\ UpstreamSucceeded(r)
    /\ dag' = [dag EXCEPT !.st[r][MergeTask] = "running",
                          !.try[r][MergeTask] = dag.try[r][MergeTask] + 1,
                          !.read[r] = InnerJoin(sa["basic"], sa["geo"], sa["culture"])]
    /\ UNCHANGED <<sa, th, ah, wk, clock, full, applied, rd, obs, scope, job, http>>

\* merge_to_th(countries) commits and the task returns its stats
MergeSucceeds(r) ==
    /\ dag.st[r][MergeTask] = "running"
    /\ th' = [th EXCEPT !["th_countries"] =
                 CommitRows(th["th_countries"],
                            UpsertAll(th["th_countries"], dag.read[r], clock))]
    /\ dag' = [dag EXCEPT !.st[r][MergeTask] = "success",
                          !.try[r][MergeTask] = 0, !.read[r] = <<>>]
    /\ UNCHANGED <<sa, ah, wk, clock, full, applied, rd, obs, scope, job, http>>

\* etl_merge_countries_to_th raises: merge_to_th rolled back
MergeFails(r) ==
    /\ dag.st[r][MergeTask] = "running"
    /\ th' = [th EXCEPT !["th_countries"] =
                 RollbackRows(th["th_countries"],
                              UpsertAll(th["th_countries"], dag.read[r], clock))]
    /\ dag' = [dag EXCEPT !.st[r][MergeTask] = AfterFailure(dag.try[r][MergeTask]),
                          !.read[r] = <<>>]
    /\ UNCHANGED <<sa, ah, wk, clock, full, applied, rd, obs, scope, job, http>>

\* an upstream task failed for good: the merge is not run
MergeUpstreamFailed(r) ==
    /\ dag.st[r][MergeTask] = "scheduled"
    /\ \E t \in LoaderTasks : dag.st[r][t] = "failed"
    /\ dag' = [dag EXCEPT !.st[r][MergeTask] = "upstream_failed"]
    /\ UNCHANGED <<sa, th, ah, wk, clock, full, applied, rd, obs, scope, job, http>>

\* merge >> [regions, weather, air_quality] with the default trigger rule
MergeSucceeded_Done(r) == dag.st[r][MergeTask] \in {"success", "failed", "upstream_failed"}
MergeSucceeded(r) == dag.st[r][MergeTask] = "success"

\* get_cities_from_db(): the capitals read from th_training_countries, one
\* measurement per city that answers
CitiesFromDb == SelectSeq(KeyOrder, LAMBDA k : HasKey(th["th_countries"], k))
CityBatch == [j \in 1..Len(CitiesFromDb) |-> [key |-> CitiesFromDb[j], val |-> <<"a">>]]

\* a try of a task downstream of the merge starts (the first one, or a retry)
FanStart(r, t) ==
    /\ t \in FanTasks
    /\ dag.st[r][t] \in {"scheduled", "up_for_retry"}
    /\ MergeSucceeded(r)
    /\ dag' = [dag EXCEPT !.st[r][t] = "running", !.try[r][t] = dag.try[r][t] + 1]
    /\ UNCHANGED <<sa, th, ah, wk, clock, full, applied, rd, obs, scope, job, http>>

\* wrapper_get_regions_stats: the ETL staged and consolidated the batch of
\* the run and reported success
RegionsSucceeds(r) ==
    /\ dag.st[r]["get_regions_stats"] = "running"
    /\ sa' = [sa EXCEPT !["regions"] = CommitTable(sa["regions"], TagAll(DagBatch, r))]
    /\ full' = [full EXCEPT !["regions"] = TagAll(DagBatch, r)]
    /\ th' = [th EXCEPT !["th_regions"] =
                 CommitRows(th["th_regions"], UpsertAll(th["th_regions"], DagBatch, clock))]
    /\ dag' = [dag EXCEPT !.st[r]["get_regions_stats"] = "success",
                          !.try[r]["get_regions_stats"] = 0]
    /\ UNCHANGED <<ah, wk, clock, applied, rd, obs, scope, job, http>>

\* wrapper_get_weather: the ETL staged the measurements of the run and
\* appended the new ones
WeatherSucceeds(r) ==
    /\ dag.st[r]["get_weather"] = "running"
    /\ sa' = [sa EXCEPT !["weather"] = CommitTable(sa["weather"], TagAll(DagBatch, r))]
    /\ full' = [full EXCEPT !["weather"] = TagAll(DagBatch, r)]
    /\ ah' = [ah EXCEPT !["th_weather"] =
                 CommitAppend(ah["th_weather"],
                              InsertDoNothing(ah["th_weather"], TagAll(DagBatch, r), <<>>))]
    /\ applied' = [applied EXCEPT !["th_weather"] = [some |-> TRUE, batch |-> DagBatch]]
    /\ dag' = [dag EXCEPT !.st[r]["get_weather"] = "success", !.try[r]["get_weather"] = 0]
    /\ UNCHANGED <<th, wk, clock, rd, obs, scope, job, http>>

\* wrapper_get_air_quality: the cities are read from th_training_countries,
\* their measurements staged and appended; with no city there is no
\* measurement and the status is NO_DATA, which the wrapper raises on
AirQualitySucceeds(r) ==
    /\ dag.st[r]["get_air_quality"] = "running"
    /\ CitiesFromDb # <<>>
    /\ sa' = [sa EXCEPT !["air_quality"] = CommitTable(sa["air_quality"], TagAll(CityBatch, r))]
    /\ full' = [full EXCEPT !["air_quality"] = TagAll(CityBatch, r)]
    /\ ah' = [ah EXCEPT !["th_air_quality"] =
                 CommitAppend(ah["th_air_quality"],
                              InsertDoNothing(ah["th_air_quality"], TagAll(CityBatch, r), <<>>))]
    /\ applied' = [applied EXCEPT !["th_air_quality"] = [some |-> TRUE, batch |-> CityBatch]]
    /\ dag' = [dag EXCEPT !.st[r]["get_air_quality"] = "success",
                          !.try[r]["get_air_quality"] = 0]
    /\ UNCHANGED <<th, wk, clock, rd, obs, scope, job, http>>

\* the wrapper raises before its ETL has committed anything (no success
\* reported, NO_DATA, or the exception of the ETL): the task instance is
\* retried after retry_delay, or fails for good
FanFails(r, t) ==
    /\ t \in FanTasks
    /\ dag.st[r][t] = "running"
    /\ dag' = [dag EXCEPT !.st[r][t] = AfterFailure(dag.try[r][t])]
    /\ UNCHANGED <<sa, th, ah, wk, clock, full, applied, rd, obs, scope, job, http>>

\* the merge failed for good or was not run: the task is not run
FanUpstreamFailed(r, t) ==
    /\ t \in FanTasks
    /\ dag.st[r][t] = "scheduled"
    /\ dag.st[r][MergeTask] \in {"failed", "upstream_failed"}
    /\ dag' = [dag EXCEPT !.st[r][t] = "upstream_failed"]
    /\ UNCHANGED <<sa, th, ah, wk, clock, full, applied, rd, obs, scope, job, http>>

(***************************************************************************)
(* The API clients: _call sends the request again after a retryable        *)
(* status or a network exception, sleeping in between, until max_retries   *)
(* attempts are used up.                                                   *)
(***************************************************************************)
DefaultMaxRetries == 3    \* max_retries: int = 3
DefaultRetryDelay == 2    \* retry_delay: int = 2

\* the status codes a server answers with
Statuses == {200, 204, 304, 404, 429, 500, 503}
\* the exceptions session.request raises: requests.exceptions.Timeout, and
\* any other (ConnectionError, ...)
NetExceptions == {"Timeout", "ConnectionError"}

HttpIdle ==
    [c |-> "none", pc |-> "idle", max |-> 0, attempt |-> 0, sent |-> 0,
     slept |-> <<>>, ok |-> FALSE, status |-> 0, res |-> "none"]

\* _should_retry(status)
ShouldRetry(s) == s \in {429, 500, 502, 503, 504}

\* the test for success: 200 <= status_code < 300 in RestCountriesClient and
\* OpenMeteoClient, status_code < 400 in AQICNClient
IsSuccess(c, s) == IF c = "AQICNClient" THEN s < 400 ELSE 200 <= s /\ s < 300

\* the except clauses of _call: RestCountriesClient and OpenMeteoClient have
\* "except Exception"; AQICNClient has "except requests.exceptions.Timeout"
\* followed by "except Exception"
Caught_TimeoutOnly(c, e) == e = "Timeout"
Caught(c, e) == TRUE

\* an exception is answered with another attempt (while attempts remain):
\* any exception in RestCountriesClient and OpenMeteoClient, only Timeout in
\* AQICNClient, whose "except Exception" returns at once
RetriesException(c, e) == c # "AQICNClient" \/ e = "Timeout"

\* delay = self.retry_delay * (2 ** (attempt - 1))
Delay(attempt) == DefaultRetryDelay * 2^(attempt - 1)

\* the CallResult returned
CallReturns(h, ok, s) == [h EXCEPT !.pc = "done", !.ok = ok, !.status = s, !.res = "returned"]

\* time.sleep(delay); continue
SleepAndContinue(h) == [h EXCEPT !.slept = Append(h.slept, Delay(h.attempt))]

\* client._call(...) of a client constructed with max_retries = mr
Call_Begin(c, mr) ==
    /\ scope = "http"
    /\ http.pc \in {"idle", "done"}
    /\ http' = [HttpIdle EXCEPT !.c = c, !.pc = "loop", !.max = mr]
    /\ UNCHANGED <<sa, th, ah, wk, clock, full, applied, rd, obs, scope, dag, job>>

\* one pass of the loop in which the server answers with status s
Call_Response(s) ==
    LET h == [http EXCEPT !.attempt = http.attempt + 1, !.sent = http.sent + 1]
    IN  /\ http.pc = "loop"
        /\ http.attempt < http.max
        /\ http' = IF IsSuccess(h.c, s) THEN CallReturns(h, TRUE, s)
                   ELSE IF ShouldRetry(s) /\ h.attempt < h.max THEN SleepAndContinue(h)
                   ELSE CallReturns(h, FALSE, s)
        /\ UNCHANGED <<sa, th, ah, wk, clock, full, applied, rd, obs, scope, dag, job>>

\* one pass of the loop in which session.request raises e
Call_Exception(e) ==
    LET h == [http EXCEPT !.attempt = http.attempt + 1, !.sent = http.sent + 1]
    IN  /\ http.pc = "loop"
        /\ http.attempt < http.max
        /\ http' = IF ~Caught(h.c, e) THEN [h EXCEPT !.pc = "done", !.res = "raised"]
                   ELSE IF RetriesException(h.c, e) /\ h.attempt < h.max
                        THEN SleepAndContinue(h)
                   ELSE CallReturns(h, FALSE, 0)
        /\ UNCHANGED <<sa, th, ah, wk, clock, full, applied, rd, obs, scope, dag, job>>

\* the loop ends without a return: CallResult "Max retries exceeded"
Call_Exhausted ==
    /\ http.pc = "loop"
    /\ http.attempt >= http.max
    /\ http' = CallReturns(http, FALSE, 0)
    /\ UNCHANGED <<sa, th, ah, wk, clock, full, applied, rd, obs, scope, dag, job>>

\* time passes
Tick ==
    /\ clock < MaxTime
    /\ clock' = clock + 1
    /\ UNCHANGED <<sa, th, ah, wk, full, applied, rd, obs, scope, dag, job, http>>

Init ==
    /\ sa = [a \in SAreas |-> <<>>]
    /\ th = [t \in VTables |-> {}]
    /\ ah = [t \in ATables |-> <<>>]
    /\ wk = [w \in Workers |-> IdleWorker]
    /\ clock = 0
    /\ full = [a \in SAreas |-> <<>>]
    /\ rd = [pc |-> "idle", area |-> "none", during |-> FALSE]
    /\ applied = [t \in ATables |-> [some |-> FALSE, batch |-> <<>>]]
    /\ obs = [n |-> 0, complete |-> TRUE, during |-> FALSE]
    /\ scope \in SAreas \cup {"merge", "join"}
    /\ dag = DagIdle
    /\ job = <<>>
    /\ http = HttpIdle

(***************************************************************************)
(* Specifications.  The pipelines work on disjoint tables, so a behaviour  *)
(* exercises the pipeline its scope names.                                 *)
(***************************************************************************)
\* the batches the staging loads are given
StagingBatches == BatchesOf({"k1"}, {<<"a">>}, MaxBatch)

\* the batches the consolidations are given: two keys, the second of them
\* always with the same value; a batch may hold one key twice
MergeBatches ==
    {b \in BatchesOf({"k1", "k2"}, Vals, MaxBatch) :
        \A j \in 1..Len(b) : b[j].key = "k2" => b[j].val = <<"a">>}

\* the staging tables the join is given
RowsOver(K, n) == SeqUpTo([key : K, val : {<<"a">>}, run : {"r1"}], n)

\* ---- staging loads beside each other and beside a reader ----
\* two loads of the same table overlap when both are load_to_sa calls; the
\* ETLs that stage and consolidate run one at a time
StagingStart(w) ==
    \E fn \in (LoadToSaFns \cup StageAndMergeFns) \ {"etl_air_quality"},
       run \in Runs, recs \in StagingBatches :
        /\ \A o \in Workers \ {w} :
              Free(o) \/ (fn \in LoadToSaFns /\ wk[o].fn \in LoadToSaFns)
        /\ BeginStaging(w, fn, run, recs)

NextStaging ==
    \/ \E w \in Workers : StagingStart(w)
    \/ \E w \in Workers : Weather_NoData(w)
    \/ \E w \in Workers : SA_Truncate(w)
    \/ \E w \in Workers : SA_Insert(w)
    \/ \E w \in Workers : SA_InsertValues(w)
    \/ \E w \in Workers : SA_InsertFails(w)
    \/ \E w \in Workers : Weather_InsertFails(w)
    \/ \E w \in Workers : SA_Commit(w)
    \/ \E w \in Workers : SA_Count(w)
    \/ \E w \in Workers : ConnReleased(w)
    \/ \E w \in Workers : Etl_Merge(w)
    \/ \E w \in Workers : Etl_MergeFails(w)
    \/ \E w \in Workers : Etl_Total(w)
    \/ \E w \in Workers : Etl_Commit(w)
    \/ \E w \in Workers : Weather_Merge(w)
    \/ \E w \in Workers : Weather_MergeFails(w)
    \/ \E w \in Workers : Weather_Commit(w)
    \/ \E w \in Workers : Weather_Total(w)
    \/ (scope \in SAreas /\ ReadIssue(scope))
    \/ ReadReturn

InitStaging == Init /\ scope \in SAreas

SpecStaging == InitStaging /\ [][NextStaging]_vars

\* ---- the versioned consolidations, one call after the other ----
NextUpsert ==
    \/ \E recs \in MergeBatches : BeginMergeToTh("w1", recs)
    \/ MergeToTh_CountBefore("w1")
    \/ MergeToTh_Upsert("w1")
    \/ MergeToTh_UpsertFails("w1")
    \/ MergeToTh_Commit("w1")
    \/ MergeToTh_CountAfter("w1")
    \/ MergeToTh_VerifyFails("w1")
    \/ \E fn \in {"etl_all_countries", "etl_regions"}, recs \in MergeBatches :
          BeginStaging("w1", fn, "r1", recs)
    \/ AllCountries_ApiFails("w1")
    \/ SA_Truncate("w1")
    \/ SA_Insert("w1")
    \/ SA_InsertValues("w1")
    \/ SA_InsertFails("w1")
    \/ SA_Commit("w1")
    \/ Etl_Merge("w1")
    \/ Etl_MergeFails("w1")
    \/ Etl_Total("w1")
    \/ Etl_Commit("w1")
    \/ Tick

InitUpsert == Init /\ scope \in {"merge", "countries", "regions"}

SpecUpsert == InitUpsert /\ [][NextUpsert]_vars

(***************************************************************************)
(* etl_get_regions_stats: the extraction loop over the regions, followed   *)
(* by the staging load and the MERGE modelled above.                       *)
(***************************************************************************)
\* the regions processed when the caller names none, in processing order
REGIONS == <<"k1", "k2">>

\* what client.get_countries_by_region answers for a region: result.ok and,
\* when ok, the statistics calculate_region_stats derives from the countries
RegionCalls ==
    [1..Len(REGIONS) -> {c \in [ok : BOOLEAN, val : Vals] : ~c.ok => c.val = <<"a">>}]

\* the loop: a region whose call is not ok is skipped (continue), the others
\* append their statistics to region_stats_list in the order of the regions
ExtractRegions_StopsAtFailure(calls) ==
    LET first == {j \in 1..Len(calls) : \A m \in 1..j : calls[m].ok}
    IN  [j \in 1..Cardinality(first) |-> [key |-> REGIONS[j], val |-> calls[j].val]]
ExtractRegions(calls) ==
    LET okIdx == SelectSeq([j \in 1..Len(calls) |-> j], LAMBDA j : calls[j].ok)
    IN  [m \in 1..Len(okIdx) |-> [key |-> REGIONS[okIdx[m]], val |-> calls[okIdx[m]].val]]

\* FASE 1 and 2 of etl_get_regions_stats: the calls, the statistics of the
\* regions that answered, one message in stats['errors'] per region whose
\* call failed; the connection is opened next
Regions_Extract(w, run, calls) ==
    /\ Free(w)
    /\ scope = Pipe("etl_regions")
    /\ wk' = [wk EXCEPT ![w] = [IdleWorker EXCEPT
                 !.fn = "etl_regions", !.pc = "truncate",
                 !.area = AreaOf("etl_regions"), !.run = run,
                 !.raw = calls,
                 !.recs = ExtractRegions(calls),
                 !.n = Len(ExtractRegions(calls)),
                 !.errors = Len(SelectSeq(calls, LAMBDA c : ~c.ok)),
                 !.th0 = th[VTableOf("etl_regions")],
                 !.sa0 = sa[AreaOf("etl_regions")]]]
    /\ UNCHANGED <<sa, th, ah, clock, full, applied, rd, obs, scope, dag, job, http>>

NextRegions ==
    \/ \E calls \in RegionCalls : Regions_Extract("w1", "r1", calls)
    \/ SA_Truncate("w1")
    \/ SA_Insert("w1")
    \/ SA_InsertFails("w1")
    \/ SA_Commit("w1")
    \/ Etl_Merge("w1")
    \/ Etl_MergeFails("w1")
    \/ Etl_Total("w1")
    \/ Etl_Commit("w1")
    \/ Tick

InitRegions == Init /\ scope = Pipe("etl_regions")

SpecRegions == InitRegions /\ [][NextRegions]_vars

\* ---- the append-only consolidations, one call after the other ----
\* the batches the append-only consolidations are given: two composite
\* keys, a batch may hold one of them twice; the run id tells the loads apart.
\* An air-quality measurement may come without station_id (the transform
\* keeps m.get('station_id')), a weather measurement always has its city
AppendBatches(fn) ==
    IF fn = "etl_air_quality"
    THEN BatchesOf({NoStation, "k1"}, {<<"a">>}, MaxBatch)
    ELSE BatchesOf({"k1", "k2"}, {<<"a">>}, MaxBatch)

NextAppend ==
    \/ \E fn \in {"etl_weather", "etl_air_quality"}, run \in Runs :
          \E recs \in AppendBatches(fn) : BeginStaging("w1", fn, run, recs)
    \/ BeginLoadToTh("w1", "r1")
    \/ Weather_NoData("w1")
    \/ AirQuality_NoData("w1")
    \/ SA_Truncate("w1")
    \/ SA_Insert("w1")
    \/ SA_InsertFails("w1")
    \/ Weather_InsertFails("w1")
    \/ SA_Commit("w1")
    \/ SA_Count("w1")
    \/ ConnReleased("w1")
    \/ LoadToTh_CountBefore("w1")
    \/ LoadToTh_Insert("w1")
    \/ LoadToTh_InsertFails("w1")
    \/ LoadToTh_Commit("w1")
    \/ LoadToTh_CountAfter("w1")
    \/ Weather_Merge("w1")
    \/ Weather_MergeFails("w1")
    \/ Weather_Commit("w1")
    \/ Weather_Total("w1")

InitAppend == Init /\ scope \in {"weather", "air_quality"}

SpecAppend == InitAppend /\ [][NextAppend]_vars

\* ---- the join over staging tables of any content ----
InitJoin ==
    /\ \E b \in RowsOver({"k1", "k2", "k3"}, MaxJoin),
          g \in RowsOver({"k2", "k3", "k4"}, MaxJoin),
          c \in RowsOver({"k2", "k3"}, MaxJoin) :
          /\ sa = [a \in SAreas |-> CASE a = "basic" -> b
                                      [] a = "geo" -> g
                                      [] a = "culture" -> c
                                      [] OTHER -> <<>>]
          /\ full = sa
    /\ th = [t \in VTables |-> {}]
    /\ ah = [t \in ATables |-> <<>>]
    /\ wk = [w \in Workers |-> IdleWorker]
    /\ clock = 0
    /\ applied = [t \in ATables |-> [some |-> FALSE, batch |-> <<>>]]
    /\ rd = [pc |-> "idle", area |-> "none", during |-> FALSE]
    /\ obs = [n |-> 0, complete |-> TRUE, during |-> FALSE]
    /\ scope = "join"
    /\ dag = DagIdle
    /\ job = <<>>
    /\ http = HttpIdle

NextJoin ==
    \/ BeginReadCombinedSa("w1")
    \/ ReadCombinedSa_Join("w1")

SpecJoin == InitJoin /\ [][NextJoin]_vars

\* ---- consolidations beside each other ----
\* two calls into the same historical table, one per worker, overlap in
\* every way their statements allow; each call has its own execution id
ConcBatches == BatchesOf({"k1", "k2"}, {<<"a">>}, MaxBatch)

RunOf(w) == IF w = "w1" THEN "r1" ELSE "r2"

FirstCall(w) == wk[w].pc = "idle"

NextConc ==
    \/ \E w \in Workers, recs \in ConcBatches :
          \E fn \in StageAndMergeFns \cup {"etl_air_quality"} :
              FirstCall(w) /\ BeginStaging(w, fn, RunOf(w), recs)
    \/ \E w \in Workers, recs \in ConcBatches : FirstCall(w) /\ BeginMergeToTh(w, recs)
    \/ \E w \in Workers : FirstCall(w) /\ BeginLoadToTh(w, RunOf(w))
    \/ \E w \in Workers : Weather_NoData(w)
    \/ \E w \in Workers : SA_Truncate(w)
    \/ \E w \in Workers : SA_Insert(w)
    \/ \E w \in Workers : SA_InsertValues(w)
    \/ \E w \in Workers : SA_InsertFails(w)
    \/ \E w \in Workers : Weather_InsertFails(w)
    \/ \E w \in Workers : SA_Commit(w)
    \/ \E w \in Workers : SA_Count(w)
    \/ \E w \in Workers : ConnReleased(w)
    \/ \E w \in Workers : MergeToTh_CountBefore(w)
    \/ \E w \in Workers : MergeToTh_Upsert(w)
    \/ \E w \in Workers : MergeToTh_UpsertFails(w)
    \/ \E w \in Workers : MergeToTh_Commit(w)
    \/ \E w \in Workers : MergeToTh_CountAfter(w)
    \/ \E w \in Workers : Etl_Merge(w)
    \/ \E w \in Workers : Etl_MergeFails(w)
    \/ \E w \in Workers : Etl_Total(w)
    \/ \E w \in Workers : Etl_Commit(w)
    \/ \E w \in Workers : LoadToTh_CountBefore(w)
    \/ \E w \in Workers : LoadToTh_Insert(w)
    \/ \E w \in Workers : LoadToTh_InsertFails(w)
    \/ \E w \in Workers : LoadToTh_Commit(w)
    \/ \E w \in Workers : LoadToTh_CountAfter(w)
    \/ \E w \in Workers : Weather_Merge(w)
    \/ \E w \in Workers : Weather_MergeFails(w)
    \/ \E w \in Workers : Weather_Commit(w)
    \/ \E w \in Workers : Weather_Total(w)
    \/ Tick

\* the historical table the pipeline of a scope consolidates into
TableOfScope(sc) ==
    CASE sc \in {"merge", "countries"} -> "th_countries"
      [] sc = "regions" -> "th_regions"
      [] sc = "weather" -> "th_weather"
      [] sc = "air_quality" -> "th_air_quality"
      [] OTHER -> "none"

\* the two calls start on empty tables, or on the tables an earlier call of
\* the pipeline with the batch <<k1>> and execution id r1 left at time 0
InitConc ==
    /\ scope \in {"merge", "countries", "regions", "weather", "air_quality"}
    /\ \E prior \in BOOLEAN :
          LET rec == [key |-> "k1", val |-> <<"a">>]
              b == IF prior THEN <<rec>> ELSE <<>>
          IN  /\ sa = [a \in SAreas |-> IF a = scope THEN TagAll(b, "r1") ELSE <<>>]
              /\ full = sa
              /\ th = [t \in VTables |->
                          IF prior /\ t = TableOfScope(scope)
                          THEN UpsertSelect({}, b, 0, {}).T ELSE {}]
              /\ ah = [t \in ATables |->
                          IF t = TableOfScope(scope)
                          THEN InsertDoNothing(<<>>, TagAll(b, "r1"), <<>>) ELSE <<>>]
              /\ applied = [t \in ATables |->
                               IF prior /\ t = TableOfScope(scope)
                               THEN [some |-> TRUE, batch |-> b]
                               ELSE [some |-> FALSE, batch |-> <<>>]]
    /\ wk = [w \in Workers |-> IdleWorker]
    /\ clock = 0
    /\ rd = [pc |-> "idle", area |-> "none", during |-> FALSE]
    /\ obs = [n |-> 0, complete |-> TRUE, during |-> FALSE]
    /\ dag = DagIdle
    /\ job = <<>>
    /\ http = HttpIdle

SpecConc == InitConc /\ [][NextConc]_vars

\* ---- the DAG runs beside each other ----
NextDag ==
    \/ \E r \in Runs : DagRunCreate(r)
    \/ \E r \in Runs, t \in LoaderTasks : LoaderStart(r, t)
    \/ \E r \in Runs, t \in LoaderTasks : LoaderSucceeds(r, t)
    \/ \E r \in Runs, t \in LoaderTasks : LoaderFails(r, t)
    \/ \E r \in Runs : MergeStart(r)
    \/ \E r \in Runs : MergeSucceeds(r)
    \/ \E r \in Runs : MergeFails(r)
    \/ \E r \in Runs : MergeUpstreamFailed(r)

\* ---- the merge and the tasks downstream of it ----
NextFan ==
    \/ \E r \in Runs : MergeStart(r)
    \/ \E r \in Runs : MergeSucceeds(r)
    \/ \E r \in Runs : MergeFails(r)
    \/ \E r \in Runs : MergeUpstreamFailed(r)
    \/ \E r \in Runs, t \in FanTasks : FanStart(r, t)
    \/ \E r \in Runs : RegionsSucceeds(r)
    \/ \E r \in Runs : WeatherSucceeds(r)
    \/ \E r \in Runs : AirQualitySucceeds(r)
    \/ \E r \in Runs, t \in FanTasks : FanFails(r, t)
    \/ \E r \in Runs, t \in FanTasks : FanUpstreamFailed(r, t)

InitDag ==
    /\ sa = [a \in SAreas |-> <<>>]
    /\ th = [t \in VTables |-> {}]
    /\ ah = [t \in ATables |-> <<>>]
    /\ wk = [w \in Workers |-> IdleWorker]
    /\ clock = 0
    /\ full = [a \in SAreas |-> <<>>]
    /\ rd = [pc |-> "idle", area |-> "none", during |-> FALSE]
    /\ applied = [t \in ATables |-> [some |-> FALSE, batch |-> <<>>]]
    /\ obs = [n |-> 0, complete |-> TRUE, during |-> FALSE]
    /\ scope = "dag"
    /\ dag = DagIdle
    /\ job = <<>>
    /\ http = HttpIdle

SpecDag == InitDag /\ [][NextDag]_vars

\* the extraction tasks of both runs are over: those of a run all succeeded,
\* or its get_countries_basic failed for good; each staging table holds the
\* batch of the last run that loaded it
InitFan ==
    /\ \E good \in SUBSET Runs :
          /\ dag = [DagIdle EXCEPT
                      !.st = [r \in Runs |-> [t \in Tasks |->
                                 IF t \in LoaderTasks
                                 THEN IF r \notin good /\ t = "get_countries_basic"
                                      THEN "failed" ELSE "success"
                                 ELSE "scheduled"]],
                      !.try = [r \in Runs |-> [t \in Tasks |->
                                 IF r \notin good /\ t = "get_countries_basic"
                                 THEN Retries + 1 ELSE 0]]]
          /\ sa = [a \in SAreas |->
                      CASE a \in {"geo", "culture"} -> TagAll(DagBatch, "r2")
                        [] a = "basic" /\ "r2" \in good -> TagAll(DagBatch, "r2")
                        [] a = "basic" /\ "r1" \in good -> TagAll(DagBatch, "r1")
                        [] OTHER -> <<>>]
          /\ full = sa
    /\ th = [t \in VTables |-> {}]
    /\ ah = [t \in ATables |-> <<>>]
    /\ wk = [w \in Workers |-> IdleWorker]
    /\ clock = 0
    /\ rd = [pc |-> "idle", area |-> "none", during |-> FALSE]
    /\ applied = [t \in ATables |-> [some |-> FALSE, batch |-> <<>>]]
    /\ obs = [n |-> 0, complete |-> TRUE, during |-> FALSE]
    /\ scope = "dag"
    /\ job = <<>>
    /\ http = HttpIdle

SpecFan == InitFan /\ [][NextFan]_vars

\* ---- the ETLs from the raw records on, one call after the other ----
\* a raw record normalizes or not; two keys, the second always with the
\* same value
RawBatches ==
    SeqUpTo({x \in [key : {"k1", "k2"}, val : Vals, bad : BOOLEAN] :
                /\ x.key = "k2" => x.val = <<"a">>
                /\ x.bad => x.val = <<"a">>},
            MaxRaw)

TransformFns == {"load_basic", "load_geo", "load_culture", "etl_all_countries", "etl_air_quality"}

NextTransform ==
    \/ \E fn \in TransformFns, rawrecs \in RawBatches :
          BeginTransform("w1", fn, "r1", rawrecs)
    \/ Transform_Done("w1")
    \/ Transform_Raises("w1")
    \/ SA_Truncate("w1")
    \/ SA_Insert("w1")
    \/ SA_InsertValues("w1")
    \/ SA_InsertFails("w1")
    \/ SA_Commit("w1")
    \/ SA_Count("w1")
    \/ Etl_Merge("w1")
    \/ Etl_MergeFails("w1")
    \/ Etl_Total("w1")
    \/ Etl_Commit("w1")
    \/ LoadToTh_CountBefore("w1")
    \/ LoadToTh_Insert("w1")
    \/ LoadToTh_InsertFails("w1")
    \/ LoadToTh_Commit("w1")
    \/ LoadToTh_CountAfter("w1")

InitTransform == Init /\ scope \in {Pipe(fn) : fn \in TransformFns}

SpecTransform == InitTransform /\ [][NextTransform]_vars

\* ---- staging loads, consolidations and the join, one call after the other ----
FrameStart ==
    \/ \E fn \in LoadToSaFns :
          \E recs \in (IF AreaOf(fn) = "air_quality"
                       THEN AppendBatches("etl_air_quality") ELSE StagingBatches) :
              BeginStaging("w1", fn, "r2", recs)
    \/ BeginLoadToTh("w1", "r2")
    \/ \E recs \in MergeBatches : BeginMergeToTh("w1", recs)
    \/ BeginReadCombinedSa("w1")

NextFrame ==
    \/ FrameStart
    \/ SA_Truncate("w1")
    \/ SA_Insert("w1")
    \/ SA_InsertFails("w1")
    \/ SA_Commit("w1")
    \/ SA_Count("w1")
    \/ LoadToTh_CountBefore("w1")
    \/ LoadToTh_Insert("w1")
    \/ LoadToTh_InsertFails("w1")
    \/ LoadToTh_Commit("w1")
    \/ LoadToTh_CountAfter("w1")
    \/ MergeToTh_CountBefore("w1")
    \/ MergeToTh_Upsert("w1")
    \/ MergeToTh_UpsertFails("w1")
    \/ MergeToTh_Commit("w1")
    \/ MergeToTh_CountAfter("w1")
    \/ MergeToTh_VerifyFails("w1")
    \/ ReadCombinedSa_Join("w1")

\* the calls start on empty tables, or on the tables earlier runs of the
\* pipelines with the batch <<k1>> and execution id r1 left at time 0
InitFrame ==
    /\ scope \in {"basic", "geo", "culture", "air_quality", "merge", "join"}
    /\ \E prior \in BOOLEAN :
          LET rec == [key |-> "k1", val |-> <<"a">>]
              b == IF prior THEN <<rec>> ELSE <<>>
          IN  /\ sa = [a \in SAreas |-> TagAll(b, "r1")]
              /\ full = sa
              /\ th = [t \in VTables |-> UpsertSelect({}, b, 0, {}).T]
              /\ ah = [t \in ATables |-> InsertDoNothing(<<>>, TagAll(b, "r1"), <<>>)]
              /\ applied = [t \in ATables |->
                               IF prior THEN [some |-> TRUE, batch |-> b]
                               ELSE [some |-> FALSE, batch |-> <<>>]]
    /\ wk = [w \in Workers |-> IdleWorker]
    /\ clock = 0
    /\ rd = [pc |-> "idle", area |-> "none", during |-> FALSE]
    /\ obs = [n |-> 0, complete |-> TRUE, during |-> FALSE]
    /\ dag = DagIdle
    /\ job = <<>>
    /\ http = HttpIdle

SpecFrame == InitFrame /\ [][NextFrame]_vars

\* ---- one _call after the other, the server answering as it likes ----
CallStep ==
    \/ \E s \in Statuses : Call_Response(s)
    \/ \E e \in NetExceptions : Call_Exception(e)
    \/ Call_Exhausted

NextHttp ==
    \/ \E c \in {"RestCountriesClient", "OpenMeteoClient", "AQICNClient"},
          mr \in 0..MaxRetriesArg : Call_Begin(c, mr)
    \/ CallStep

InitHttp ==
    /\ sa = [a \in SAreas |-> <<>>]
    /\ th = [t \in VTables |-> {}]
    /\ ah = [t \in ATables |-> <<>>]
    /\ wk = [w \in Workers |-> IdleWorker]
    /\ clock = 0
    /\ full = [a \in SAreas |-> <<>>]
    /\ rd = [pc |-> "idle", area |-> "none", during |-> FALSE]
    /\ applied = [t \in ATables |-> [some |-> FALSE, batch |-> <<>>]]
    /\ obs = [n |-> 0, complete |-> TRUE, during |-> FALSE]
    /\ scope = "http"
    /\ dag = DagIdle
    /\ job = <<>>
    /\ http = HttpIdle

\* session.request has a timeout: every attempt ends with a response or an
\* exception, and the thread of the call keeps running
SpecHttp == InitHttp /\ [][NextHttp]_vars /\ WF_vars(CallStep)

\* ---- a versioned consolidation invoked again and again with one batch ----
\* the orchestrator re-invokes the function with the batch it was given
NextRerun ==
    \/ BeginMergeToTh("w1", job)
    \/ \E fn \in {"etl_all_countries", "etl_regions"} : BeginStaging("w1", fn, "r1", job)
    \/ MergeToTh_CountBefore("w1")
    \/ MergeToTh_Upsert("w1")
    \/ MergeToTh_UpsertFails("w1")
    \/ MergeToTh_Commit("w1")
    \/ MergeToTh_CountAfter("w1")
    \/ MergeToTh_VerifyFails("w1")
    \/ SA_Truncate("w1")
    \/ SA_Insert("w1")
    \/ SA_InsertValues("w1")
    \/ SA_InsertFails("w1")
    \/ SA_Commit("w1")
    \/ Etl_Merge("w1")
    \/ Etl_MergeFails("w1")
    \/ Etl_Total("w1")
    \/ Etl_Commit("w1")
    \/ Tick

InitRerun ==
    /\ sa = [a \in SAreas |-> <<>>]
    /\ th = [t \in VTables |-> {}]
    /\ ah = [t \in ATables |-> <<>>]
    /\ wk = [w \in Workers |-> IdleWorker]
    /\ clock = 0
    /\ full = [a \in SAreas |-> <<>>]
    /\ rd = [pc |-> "idle", area |-> "none", during |-> FALSE]
    /\ applied = [t \in ATables |-> [some |-> FALSE, batch |-> <<>>]]
    /\ obs = [n |-> 0, complete |-> TRUE, during |-> FALSE]
    /\ scope \in {"merge", "countries", "regions"}
    /\ dag = DagIdle
    /\ job \in MergeBatches \ {<<>>}
    /\ http = HttpIdle

SpecRerun == InitRerun /\ [][NextRerun]_vars

(***************************************************************************)
(* Properties.                                                             *)
(***************************************************************************)
VersionedFns == {"merge_to_th", "etl_all_countries", "etl_regions"}
AppendFns == {"etl_weather", "etl_air_quality", "load_to_th"}

\* C1: a reader of a staging table beside a reload sees a whole committed
\* batch: what it reads, and the committed table at every moment, is the
\* complete batch of the last committed load (the old one until the new one
\* commits), never an emptied or half-loaded table nor rows of two batches
C1_StagingAtomic ==
    /\ obs.complete
    /\ \A a \in SAreas : sa[a] = full[a]

\* a read issued while a reload held the table has returned, and the table
\* holds a batch
C1_Witness ==
    /\ obs.n = 1
    /\ obs.during
    /\ obs.complete
    /\ rd.pc = "idle"
    /\ sa[scope] # <<>>

\* C2: a consolidation pass whose batch includes a key already in the
\* historical table leaves that key at its version before the pass plus 1,
\* with first_loaded_at unchanged
C2_VersionPlusOne ==
    [][\A w \in Workers :
          (/\ wk[w].fn \in VersionedFns
           /\ wk[w].tx
           /\ ~wk'[w].tx
           /\ wk'[w].res # "raised"
           /\ wk'[w].res # "failed")
          => \A k \in SeqKeys(wk[w].batch) :
                HasKey(th[VTableOf(wk[w].fn)], k)
                => /\ RowOf(th'[VTableOf(wk[w].fn)], k).version
                        = RowOf(th[VTableOf(wk[w].fn)], k).version + 1
                   /\ RowOf(th'[VTableOf(wk[w].fn)], k).first
                        = RowOf(th[VTableOf(wk[w].fn)], k).first]_vars

\* C3: a versioned consolidation that applied its batch B reports
\* inserted + updated = |B|, and the number of distinct keys of the
\* historical table grew by the reported inserted
C3_UpsertTotals ==
    \A w \in Workers :
        (wk[w].pc = "done" /\ wk[w].fn \in VersionedFns /\ wk[w].res = "ok")
        => /\ wk[w].ins + wk[w].upd = wk[w].n
           /\ wk[w].ka - wk[w].kb = wk[w].ins

\* a consolidation returned after inserting one key and updating another
C3_Witness ==
    \E w \in Workers :
        /\ wk[w].pc = "done"
        /\ wk[w].fn \in VersionedFns
        /\ wk[w].res = "ok"
        /\ wk[w].ins = 1
        /\ wk[w].upd = 1
        /\ wk[w].dk = 2

\* C4: an append-only consolidation of a staged batch B reports
\* inserted + duplicates = |B|
C4_AppendCounts ==
    \A w \in Workers :
        (wk[w].pc = "done" /\ wk[w].fn \in AppendFns /\ wk[w].res = "ok")
        => wk[w].ins + wk[w].dup = wk[w].n

\* C5: the second of two consecutive applications of the same batch B to an
\* append-only table inserts nothing, reports inserted = 0 and
\* duplicates = |B|, and leaves the table as the first application left it
C5_AppendTwice ==
    /\ [](\A w \in Workers :
            (wk[w].pc = "done" /\ wk[w].fn \in AppendFns /\ wk[w].res = "ok"
             /\ wk[w].again)
            => (wk[w].ins = 0 /\ wk[w].dup = wk[w].n))
    /\ [][\A w \in Workers :
            (wk[w].fn \in AppendFns /\ wk[w].pc = "commit" /\ wk[w].again)
            => ah' = ah]_vars

\* C6: a versioned consolidation whose batch holds two records of one key
\* with different values succeeds: its upsert statement runs on that batch,
\* the stored row has the values of the last of the two, and the reported
\* inserted + updated counts the key once
C6_LastWinsCountedOnce ==
    /\ [](\A w \in Workers :
            (/\ wk[w].pc = "merge"
             /\ wk[w].fn \in {"etl_all_countries", "etl_regions"}
             /\ \E j, l \in 1..Len(sa[wk[w].area]) :
                   /\ sa[wk[w].area][j].key = sa[wk[w].area][l].key
                   /\ sa[wk[w].area][j].val # sa[wk[w].area][l].val)
            => UpsertSelect(th[VTableOf(wk[w].fn)], Untag(sa[wk[w].area]), clock, {}).ok)
    /\ [][\A w \in Workers :
            (/\ wk[w].fn \in VersionedFns
             /\ wk[w].pc \in {"after", "commit"}
             /\ wk'[w].pc = "done"
             /\ wk'[w].res = "ok")
            => \A j, l \in 1..Len(wk[w].batch) :
                  (/\ j < l
                   /\ wk[w].batch[j].key = wk[w].batch[l].key
                   /\ wk[w].batch[j].val # wk[w].batch[l].val
                   /\ \A m \in (l + 1)..Len(wk[w].batch) :
                         wk[w].batch[m].key # wk[w].batch[l].key)
                  => /\ RowOf(th'[VTableOf(wk[w].fn)], wk[w].batch[l].key).val
                          = wk[w].batch[l].val
                     /\ wk'[w].ins + wk'[w].upd = DistinctKeys(wk[w].batch)]_vars

\* C7: every key of the batch of a consolidation call is inserted or
\* updated against the historical table as it was when the call started:
\* it ends at version 1 when the key was absent then, at that version plus 1
\* when it was present
C7_StartSnapshot ==
    [][\A w \in Workers :
          (/\ wk[w].fn \in VersionedFns
           /\ wk[w].tx
           /\ ~wk'[w].tx
           /\ wk'[w].res # "raised"
           /\ wk'[w].res # "failed")
          => \A k \in SeqKeys(wk[w].batch) :
                RowOf(th'[VTableOf(wk[w].fn)], k).version
                   = IF HasKey(wk[w].th0, k) THEN RowOf(wk[w].th0, k).version + 1 ELSE 1]_vars

\* C8: read_combined_sa returns rows for exactly the keys that are in all
\* three staging tables, and returns normally when a key is missing from one
C8_InnerJoin ==
    \A w \in Workers :
        (wk[w].pc = "done" /\ wk[w].fn = "read_combined_sa")
        => /\ wk[w].res = "ok"
           /\ SeqKeys(wk[w].out)
                = SeqKeys(sa["basic"]) \cap SeqKeys(sa["geo"]) \cap SeqKeys(sa["culture"])

\* the join of {k1,k2,k3}, {k2,k3,k4} and {k2,k3} has returned
C8_Witness ==
    \E w \in Workers :
        /\ wk[w].pc = "done"
        /\ wk[w].fn = "read_combined_sa"
        /\ SeqKeys(sa["basic"]) = {"k1", "k2", "k3"}
        /\ SeqKeys(sa["geo"]) = {"k2", "k3", "k4"}
        /\ SeqKeys(sa["culture"]) = {"k2", "k3"}
        /\ SeqKeys(wk[w].out) = {"k2", "k3"}

\* C9: a staging load that leaves its insert loop before every record is in
\* reports the error, and the committed staging table stays the whole prior
\* batch, also when the connection it left open is released; no reader sees
\* a partial batch
C9_FailedLoadKeepsPriorBatch ==
    [][/\ \A w \in Workers :
             (/\ wk[w].pc = "insert"
              /\ wk[w].i < Len(wk[w].recs)
              /\ wk'[w].pc # "insert")
             => /\ wk'[w].res \in {"raised", "failed"}
                /\ sa' = sa
                /\ sa'[wk[w].area] = full[wk[w].area]
       /\ \A w \in Workers :
             (wk[w].pc = "leaked" /\ wk'[w].pc = "done")
             => /\ wk'[w].res = "failed"
                /\ sa' = sa
                /\ sa'[wk[w].area] = full[wk[w].area]
       /\ obs'.complete]_vars

\* a load_to_sa raised after one of its inserts had run, over a table that
\* held a batch
C9_Witness ==
    \E w \in Workers :
        /\ wk[w].pc = "done"
        /\ wk[w].fn \in LoadToSaFns
        /\ wk[w].res = "raised"
        /\ wk[w].i >= 1
        /\ sa[AreaOf(wk[w].fn)] # <<>>

\* C10: a versioned consolidation call that ends with an error leaves the
\* historical table exactly as it was when the call started
C10_UpsertAllOrNothing ==
    [][\A w \in Workers :
          (/\ wk[w].fn \in VersionedFns
           /\ wk[w].pc # "done"
           /\ wk'[w].pc = "done"
           /\ wk'[w].res \in {"raised", "failed"})
          => th'[VTableOf(wk[w].fn)] = wk[w].th0]_vars

\* C11: an append-only consolidation leaves every measurement already in
\* the historical table in place with all its fields (its run id included),
\* also when the staged batch presents a stored composite key again
C11_AppendImmutable ==
    [][\A t \in ATables :
          /\ Len(ah'[t]) >= Len(ah[t])
          /\ \A j \in 1..Len(ah[t]) : ah'[t][j] = ah[t][j]]_vars

\* a consolidation returned normally after the staged batch had presented,
\* under another run id, a composite key that was stored; the stored
\* measurement still carries its own run id
C11_Witness ==
    \E w \in Workers :
        /\ wk[w].pc = "done"
        /\ wk[w].fn \in AppendFns
        /\ wk[w].res = "ok"
        /\ wk[w].n >= 1
        /\ wk[w].ins = 0
        /\ \E j \in 1..Len(sa[scope]), l \in 1..Len(ah[ATableOf(wk[w].fn)]) :
              /\ sa[scope][j].key = ah[ATableOf(wk[w].fn)][l].key
              /\ sa[scope][j].run # ah[ATableOf(wk[w].fn)][l].run

\* C12: the total an append-only consolidation reports is the size the
\* historical table had when the consolidation began plus the inserted count
\* it reports, also when another consolidation into the table overlaps it
C12_AppendTotal ==
    [][\A w \in Workers :
          (wk[w].pc = "after" /\ wk[w].fn \in AppendFns /\ wk'[w].pc = "done")
              => wk'[w].tot = wk[w].cb + wk'[w].ins]_vars

\* C13: a key of the batch that the historical table did not hold when the
\* consolidation started is stored at version 1 with first_loaded_at equal
\* to last_updated_at; a batch of new keys, each once, upserted into an
\* empty table is reported as inserted = |batch|, updated = 0, total = |batch|
C13_FirstInsert ==
    [][\A w \in Workers :
          /\ (/\ wk[w].fn \in VersionedFns
              /\ wk[w].tx
              /\ ~wk'[w].tx
              /\ wk'[w].res # "raised"
              /\ wk'[w].res # "failed")
             => \A k \in SeqKeys(wk[w].batch) :
                   ~HasKey(wk[w].th0, k)
                   => /\ RowOf(th'[VTableOf(wk[w].fn)], k).version = 1
                      /\ RowOf(th'[VTableOf(wk[w].fn)], k).first
                           = RowOf(th'[VTableOf(wk[w].fn)], k).last
          /\ (/\ wk[w].fn \in VersionedFns
              /\ wk[w].pc \in {"after", "commit"}
              /\ wk'[w].pc = "done"
              /\ wk'[w].res = "ok"
              /\ wk[w].th0 = {}
              /\ DistinctKeys(wk[w].batch) = Len(wk[w].batch))
             => /\ wk'[w].ins = Len(wk[w].batch)
                /\ wk'[w].upd = 0
                /\ wk'[w].tot = Len(wk[w].batch)]_vars

\* C14: whatever consolidation calls ran, one after the other or beside
\* each other, a versioned historical table holds at most one row per
\* natural key
C14_NaturalKeyUnique ==
    \A t \in VTables : \A r1, r2 \in th[t] : r1.key = r2.key => r1 = r2

\* a call has updated, in its open transaction, a key whose row another
\* call of the same table committed, and that other call has not yet returned
C14_Witness ==
    \E w, o \in Workers :
        /\ w # o
        /\ wk[w].tx
        /\ wk[w].fn \in VersionedFns
        /\ wk[o].fn \in VersionedFns
        /\ wk[o].pc = "after"
        /\ \E x \in wk[w].tw :
              /\ HasKey(th[VTableOf(wk[w].fn)], x.key)
              /\ x.key \in SeqKeys(wk[o].batch)
              /\ x.version = RowOf(th[VTableOf(wk[w].fn)], x.key).version + 1

\* C15: an append-only historical table never holds two measurements with
\* the same composite key, whether the key comes twice in one staged batch,
\* again in a later batch, or without its station component
C15_CompositeKeyUnique ==
    \A t \in ATables : \A j, l \in 1..Len(ah[t]) :
        ah[t][j].key = ah[t][l].key => j = l

\* C16: every row of a versioned historical table has first_loaded_at <=
\* last_updated_at; a stored row keeps its first_loaded_at for good; and a
\* pass that commits a write of a row leaves the time of that pass in its
\* last_updated_at
C16_AuditTimestamps ==
    [][/\ \A t \in VTables : \A r \in th'[t] : r.first <= r.last
       /\ \A t \in VTables : \A r \in th[t] :
             /\ HasKey(th'[t], r.key)
             /\ RowOf(th'[t], r.key).first = r.first
       /\ \A w \in Workers :
             (wk[w].fn \in VersionedFns /\ wk[w].tx /\ ~wk'[w].tx
                /\ wk'[w].res # "raised" /\ wk'[w].res # "failed")
             => \A x \in wk[w].tw :
                   RowOf(th'[VTableOf(wk[w].fn)], x.key).last = wk[w].t0]_vars

\* C17: when a staging load commits, the staging table holds the records of
\* its batch, each as often as the batch has it, and no row of an earlier
\* batch; the count load_to_sa returns is the length of its batch
C17_FullRefresh ==
    [][\A w \in Workers :
          /\ (wk[w].pc = "insert" /\ wk'[w].pc \in {"count", "merge"})
             => sa'[wk[w].area] = TagAll(wk[w].recs, wk[w].run)
          /\ (wk[w].pc = "count" /\ wk'[w].pc \in {"done", "before"})
             => wk'[w].cnt = Len(wk[w].recs)]_vars

\* C18: of two overlapping consolidation calls whose batches hold the same
\* key, absent from the historical table, only one commits an insert of it:
\* a call that commits a row for a key the table already holds has updated
\* that row (its version is above the stored one), and the table has one row
\* for the key afterwards
C18_OneInsertPerKey ==
    [][\A w \in Workers :
          (wk[w].fn \in VersionedFns /\ wk[w].tx /\ ~wk'[w].tx
             /\ wk'[w].res # "raised" /\ wk'[w].res # "failed")
          => \A x \in wk[w].tw :
                /\ HasKey(th[VTableOf(wk[w].fn)], x.key)
                   => x.version > RowOf(th[VTableOf(wk[w].fn)], x.key).version
                /\ Cardinality({r \in th'[VTableOf(wk[w].fn)] : r.key = x.key}) = 1]_vars

\* a call that began when the key was absent holds, in its open
\* transaction, version 2 of the row the other call inserted meanwhile
C18_Witness ==
    \E w, o \in Workers :
        /\ w # o
        /\ wk[w].fn \in VersionedFns
        /\ wk[w].tx
        /\ wk[o].fn \in VersionedFns
        /\ wk[o].pc \in {"after", "done"}
        /\ wk[o].res \in {"none", "ok"}
        /\ \E x \in wk[w].tw :
              /\ ~HasKey(wk[w].th0, x.key)
              /\ HasKey(th[VTableOf(wk[w].fn)], x.key)
              /\ RowOf(th[VTableOf(wk[w].fn)], x.key).version = 1
              /\ x.version = 2

\* C19: a try of merge_countries_to_th of a run starts only when the three
\* extraction tasks of that run have succeeded, each having committed its
\* staging load; when one of the three has failed for good, the merge of the
\* run has not run and does not run
C19_FanInBarrier ==
    [][\A r \in Runs :
          /\ (dag.st[r][MergeTask] # "running" /\ dag'.st[r][MergeTask] = "running")
             => \A t \in LoaderTasks :
                   /\ dag.st[r][t] = "success"
                   /\ full[TaskArea(t)] # <<>>
          /\ (\E t \in LoaderTasks : dag'.st[r][t] = "failed")
             => /\ dag'.st[r][MergeTask] \in {"scheduled", "upstream_failed"}
                /\ dag'.try[r][MergeTask] = 0]_vars

\* the merge of one run has run after its three extractions succeeded,
\* the merge of the other run was skipped because an extraction failed
C19_Witness ==
    \E r, q \in Runs :
        /\ dag.st[r][MergeTask] \in {"running", "success"}
        /\ dag.st[q][MergeTask] = "upstream_failed"

\* C20: when read_combined_sa runs for a run, each of the three staging
\* tables holds the batch that run loaded: every row carries the run's id
C20_SameRunJoinInput ==
    [][\A r \in Runs :
          (dag.st[r][MergeTask] # "running" /\ dag'.st[r][MergeTask] = "running")
          => \A a \in {"basic", "geo", "culture"} :
                /\ sa[a] # <<>>
                /\ \A j \in 1..Len(sa[a]) : sa[a][j].run = r]_vars

\* C21: no two task instances that load the same staging table run at the
\* same time: the extraction tasks of a run load different tables, and two
\* executions of one extraction task never overlap
C21_SingleWriter ==
    /\ \A t, u \in LoaderTasks : TaskArea(t) = TaskArea(u) => t = u
    /\ \A r, q \in Runs : \A t, u \in LoaderTasks :
          (/\ dag.st[r][t] = "running"
           /\ dag.st[q][u] = "running"
           /\ TaskArea(t) = TaskArea(u))
          => (r = q /\ t = u)

\* C22 as stated: a versioned consolidation invoked again with the batch an
\* earlier invocation committed leaves the historical table as that earlier
\* invocation left it
C22_RerunSameState ==
    [][\A w \in Workers :
          (/\ wk[w].fn \in VersionedFns
           /\ wk[w].tx
           /\ ~wk'[w].tx
           /\ wk'[w].res # "raised"
           /\ wk'[w].res # "failed"
           /\ SeqKeys(job) \subseteq KeysOf(th[VTableOf(wk[w].fn)]))
          => th'[VTableOf(wk[w].fn)] = th[VTableOf(wk[w].fn)]]_vars

\* C22 as amended: invoked again with the same batch, the consolidation
\* leaves the same keys with the same business columns and the same
\* first_loaded_at; only version and last_updated_at of the rows change
C22_RerunSameBusiness ==
    [][\A w \in Workers :
          (/\ wk[w].fn \in VersionedFns
           /\ wk[w].tx
           /\ ~wk'[w].tx
           /\ wk'[w].res # "raised"
           /\ wk'[w].res # "failed"
           /\ SeqKeys(job) \subseteq KeysOf(th[VTableOf(wk[w].fn)]))
          => {[key |-> r.key, val |-> r.val, first |-> r.first] :
                  r \in th'[VTableOf(wk[w].fn)]}
             = {[key |-> r.key, val |-> r.val, first |-> r.first] :
                  r \in th[VTableOf(wk[w].fn)]}]_vars

\* the second invocation has returned, a tick after the first one: a row
\* of the batch is at a later last_updated_at than its first_loaded_at
C22_Witness ==
    /\ wk["w1"].pc = "done"
    /\ wk["w1"].fn \in VersionedFns
    /\ wk["w1"].res = "ok"
    /\ \E r \in th[TableOfScope(scope)] :
          /\ r.key \in SeqKeys(job)
          /\ r.version >= 2
          /\ r.first < r.last

\* C23: when the extraction of an ETL fails (the API call of
\* etl_get_all_countries, every region call of etl_get_regions_stats, every
\* city call of the weather or the air-quality ETL), no step of the call
\* changes a staging or a historical table, and the call does not return
\* success
C23_ExtractionFailure ==
    [][\A w \in Workers :
          (/\ wk'[w] # wk[w]
           /\ \/ /\ wk[w].fn \in {"etl_regions", "etl_weather"}
                 /\ ~Free(w)
                 /\ wk[w].recs = <<>>
              \/ /\ Free(w)
                 /\ wk'[w].pc = "done"
                 /\ wk'[w].fn \in {"etl_all_countries", "etl_air_quality"})
          => /\ sa' = sa
             /\ th' = th
             /\ ah' = ah
             /\ wk'[w].pc = "done" => wk'[w].res # "ok"]_vars

\* C24: no ETL entry point raises: whatever fails inside it, the call
\* returns its statistics record. (etl_get_countries_basic/geo/culture and
\* etl_merge_countries_to_th hand on what their load_to_sa and merge_to_th
\* raise: their except clause prints the error and re-raises.)
C24_NeverRaises ==
    \A w \in Workers :
        (/\ wk[w].pc = "done"
         /\ wk[w].fn \in {"etl_air_quality", "etl_weather", "etl_regions",
                          "etl_all_countries", "merge_to_th",
                          "load_basic", "load_geo", "load_culture"})
        => wk[w].res # "raised"

\* C25: an ETL that stages and consolidates and does not return success
\* leaves its staging table and its historical table as they were when it
\* was called
C25_NoPartialOutcome ==
    [][\A w \in Workers :
          (/\ wk[w].fn \in StageAndMergeFns \cup {"etl_air_quality"}
           /\ ~Free(w)
           /\ wk'[w].pc = "done"
           /\ wk'[w].res # "ok")
          => /\ sa'[wk[w].area] = wk[w].sa0
             /\ VTableOf(wk[w].fn) # "none" => th'[VTableOf(wk[w].fn)] = wk[w].th0
             /\ ATableOf(wk[w].fn) # "none" => ah'[ATableOf(wk[w].fn)] = wk[w].ah0]_vars

\* C26: the transform of a stage never aborts it: whatever records fail to
\* normalize, the stage goes on to its staging load with exactly the
\* records that did normalize, in their order
C26_NormalizationTolerance ==
    [][\A w \in Workers :
          (wk[w].pc = "transform" /\ wk'[w] # wk[w])
          => /\ wk'[w].pc = "truncate"
             /\ wk'[w].recs = Normalized(wk[w].raw)]_vars

\* C27: no step removes a natural key from a versioned historical table or
\* lowers its version, whether or not the batch of the pass holds the key
C27_NoDeletePath ==
    [][\A t \in VTables : \A r \in th[t] :
          \E n \in th'[t] : n.key = r.key /\ n.version >= r.version]_vars

\* a pass over a batch with one key has returned and the table holds two keys
C27_Witness ==
    /\ wk["w1"].pc = "done"
    /\ wk["w1"].fn \in VersionedFns
    /\ wk["w1"].res = "ok"
    /\ wk["w1"].dk = 1
    /\ Cardinality(KeysOf(th[TableOfScope(scope)])) = 2

\* C28: a step of load_to_sa (basic, geo, culture, air quality) or of
\* read_combined_sa leaves every historical table as it is; a step of
\* merge_to_th or of the air-quality load_to_th leaves every staging table
\* as it is
C28_OnlyConsolidatorMutatesHistory ==
    [][\A w \in Workers :
          LET loading ==
                  \/ wk'[w].fn \in LoadToSaFns /\ wk'[w].pc = "truncate"
                  \/ wk[w].fn \in LoadToSaFns /\ wk[w].pc \in {"truncate", "insert", "count"}
              reading == wk'[w].fn = "read_combined_sa"
              consolidating ==
                  \/ wk'[w].fn \in {"merge_to_th", "load_to_th"}
                  \/ /\ wk[w].fn = "etl_air_quality"
                     /\ wk[w].pc \in {"before", "append", "commit", "after"}
          IN  wk'[w] # wk[w]
              => /\ (loading \/ reading) => (th' = th /\ ah' = ah)
                 /\ consolidating => sa' = sa]_vars

\* load_to_th has inserted rows into the historical table and returned, and
\* the staging table it read still holds its rows
C28_Witness ==
    /\ wk["w1"].pc = "done"
    /\ wk["w1"].fn \in {"etl_air_quality", "load_to_th"}
    /\ wk["w1"].res = "ok"
    /\ wk["w1"].ins >= 1
    /\ sa["air_quality"] # <<>>
    /\ ah["th_air_quality"] # <<>>

C30_BoundedRetries ==
    /\ [](http.sent <= http.max /\ http.res # "raised")
    /\ [](http.pc = "done" => http.res = "returned")
    /\ (http.pc = "loop" ~> http.pc = "done")

\* a call with the default max_retries has sent three requests and returned
\* its failure
C30_Witness ==
    /\ http.pc = "done"
    /\ http.max = DefaultMaxRetries
    /\ http.sent = DefaultMaxRetries
    /\ http.res = "returned"
    /\ ~http.ok
    /\ Len(http.slept) = DefaultMaxRetries - 1

\* C31: a call with the default settings whose three attempts all got a
\* retryable status has waited 2s, 4s and 8s
C31_BackoffSchedule ==
    (/\ http.pc = "done"
     /\ http.max = DefaultMaxRetries
     /\ http.sent = DefaultMaxRetries
     /\ ShouldRetry(http.status))
    => http.slept = <<2, 4, 8>>

\* C32: a pass of the loop is followed by another only after a status 429,
\* 500, 502, 503 or 504 or after an exception, and only while attempts
\* remain; any other status outside 2xx ends the call with ok = False and
\* without a sleep; ok = True is returned only for a 2xx status
C32_RetryConditions ==
    [][/\ \A s \in Statuses :
            Call_Response(s)
            => /\ http'.pc = "loop"
                  => (s \in {429, 500, 502, 503, 504} /\ http'.attempt < http.max)
               /\ (~(200 <= s /\ s < 300) /\ s \notin {429, 500, 502, 503, 504})
                  => (http'.pc = "done" /\ ~http'.ok /\ http'.slept = http.slept)
               /\ (http'.pc = "done" /\ http'.ok) => (200 <= s /\ s < 300)
       /\ \A e \in NetExceptions :
            Call_Exception(e)
            => /\ http'.pc = "loop" => http'.attempt < http.max
               /\ http'.pc = "done" => ~http'.ok]_vars

\* C33: all committed rows of a staging table carry one execution_id, the
\* one of the load that last committed to the table
C33_SingleRunId ==
    \A a \in SAreas : \A j \in 1..Len(sa[a]) :
        /\ full[a] # <<>>
        /\ sa[a][j].run = full[a][1].run

\* two loads of one staging table have committed and returned, the table
\* holds the rows of run r2
C33_Witness ==
    /\ \A w \in Workers : wk[w].pc = "done" /\ wk[w].res = "ok"
    /\ wk["w1"].fn = wk["w2"].fn
    /\ wk["w1"].fn \in LoadToSaFns
    /\ \E a \in SAreas : Len(sa[a]) = 2 /\ sa[a][1].run = "r2"

\* C34: every stored version is at least 1, and when etl_get_all_countries
\* or etl_get_regions_stats returns success, th_inserted is the number of
\* staged keys the historical table did not hold when the call began and
\* th_updated the number it held
C34_ClassificationByVersion ==
    [][/\ \A t \in VTables : \A r \in th'[t] : r.version >= 1
       /\ \A w \in Workers :
             (/\ wk[w].fn \in {"etl_all_countries", "etl_regions"}
              /\ wk[w].pc = "commit"
              /\ wk'[w].pc = "done"
              /\ wk'[w].res = "ok")
             => /\ wk'[w].ins = Cardinality(SeqKeys(wk[w].batch) \ KeysOf(wk[w].th0))
                /\ wk'[w].upd = Cardinality(SeqKeys(wk[w].batch) \cap KeysOf(wk[w].th0))]_vars

\* an ETL has returned one insert and one update
C34_Witness ==
    /\ wk["w1"].pc = "done"
    /\ wk["w1"].fn \in {"etl_all_countries", "etl_regions"}
    /\ wk["w1"].res = "ok"
    /\ wk["w1"].ins = 1
    /\ wk["w1"].upd = 1

\* C35: the inserted count merge_to_th returns is the number of rows the
\* call itself added to th_training_countries, also when another
\* consolidation commits into the table between its two counts
C35_CountDiffUnderConcurrency ==
    \A w \in Workers :
        (wk[w].pc = "done" /\ wk[w].fn = "merge_to_th" /\ wk[w].res = "ok")
        => /\ wk[w].ins = wk[w].ka - wk[w].kb
           /\ wk[w].upd = wk[w].n - wk[w].ins

\* C36: in the ETLs that commit the staging load and consolidate from the
\* staging table in a later statement, the records an invocation consolidates
\* are exactly the records that invocation staged, whatever another
\* invocation of the same ETL does in between
C36_ConsolidatesOwnBatch ==
    [][\A w \in Workers :
          (/\ wk[w].fn \in StageAndMergeFns \cup {"etl_air_quality"}
           /\ wk[w].pc \in {"merge", "append"}
           /\ wk'[w].pc \in {"total", "commit"})
          => wk'[w].batch = wk[w].recs]_vars

\* C37: when an ETL function that opened a database connection has returned
\* or raised (success, failure in the staging load, failure in the
\* consolidation), its transaction is over and its connection closed: it
\* holds no truncate lock and has no uncommitted change
C37_ClosedOnEveryExit ==
    \A w \in Workers :
        wk[w].res # "none"
        => /\ ~wk[w].hold
           /\ ~wk[w].tx
           /\ wk[w].pend = <<>>
           /\ wk[w].tw = {}
           /\ wk[w].ta = <<>>

\* C38: in etl_get_regions_stats a region whose API call fails is skipped
\* with an error recorded, the regions that answered are staged and
\* consolidated, the historical rows of the skipped regions keep their
\* values and version, and the run reports success
C38_PartialRegionExtraction ==
    [][\A w \in Workers :
          (/\ wk[w].fn = "etl_regions" /\ wk[w].raw # <<>>
           /\ wk[w].pc = "commit" /\ wk'[w].pc = "done")
          => LET calls == wk[w].raw
                 good == {j \in 1..Len(calls) : calls[j].ok}
                 failed == {j \in 1..Len(calls) : ~calls[j].ok}
                 T == th'["th_regions"]
             IN  /\ wk[w].errors = Cardinality(failed)
                 /\ Len(sa'["regions"]) = Cardinality(good)
                 /\ \A j \in good :
                        /\ \E m \in 1..Len(sa'["regions"]) :
                               /\ sa'["regions"][m].key = REGIONS[j]
                               /\ sa'["regions"][m].val = calls[j].val
                        /\ HasKey(T, REGIONS[j])
                        /\ RowOf(T, REGIONS[j]).val = calls[j].val
                 /\ \A j \in failed :
                        IF HasKey(wk[w].th0, REGIONS[j])
                        THEN /\ HasKey(T, REGIONS[j])
                             /\ RowOf(T, REGIONS[j]) = RowOf(wk[w].th0, REGIONS[j])
                        ELSE ~HasKey(T, REGIONS[j])
                 /\ wk'[w].res = "ok"]_vars

\* a run that staged one of the two regions has returned success while both
\* regions have a historical row, one of them at its second version
C38_Witness ==
    /\ wk["w1"].fn = "etl_regions"
    /\ wk["w1"].pc = "done"
    /\ wk["w1"].res = "ok"
    /\ wk["w1"].n = 1
    /\ \A k \in {"k1", "k2"} : HasKey(th["th_regions"], k)
    /\ \E k \in {"k1", "k2"} : RowOf(th["th_regions"], k).version = 2

\* C39: within a DAG run get_regions_stats, get_weather and get_air_quality
\* start only after merge_countries_to_th of that run has succeeded, so the
\* city list of get_air_quality is read after that merge has committed, and
\* none of the three runs when the merge failed
C39_FanOutOrdering ==
    [][\A r \in Runs :
          /\ \A t \in FanTasks :
                (dag.st[r][t] # "running" /\ dag'.st[r][t] = "running")
                => /\ dag.st[r][MergeTask] = "success"
                   /\ CitiesFromDb # <<>>
          /\ dag'.st[r][MergeTask] \in {"failed", "upstream_failed"}
             => \A t \in FanTasks :
                   /\ dag'.st[r][t] \in {"scheduled", "upstream_failed"}
                   /\ dag'.try[r][t] = 0]_vars

\* one run whose merge succeeded has finished its three downstream tasks,
\* the other run's merge did not succeed and its three tasks were not run
C39_Witness ==
    \E r, q \in Runs :
        /\ dag.st[r][MergeTask] = "success"
        /\ \A t \in FanTasks : dag.st[r][t] = "success"
        /\ dag.st[q][MergeTask] \in {"failed", "upstream_failed"}
        /\ \A t \in FanTasks : dag.st[q][t] = "upstream_failed"
====
